---- MODULE Spec2Model ----
(***************************************************************************)
(* State-machine model of the MCP composer: the downstream registry        *)
(* (DownstreamController), the kit model (ServerKit), the Composer with    *)
(* its gateways, the admin API handlers and the ConfigurationManager.      *)
(*                                                                         *)
(* Names.  A server or tool name is a sequence of hyphen-free segments,    *)
(* so that "a-b" is <<"a","b">>; joining two names with "-" is the         *)
(* concatenation of the sequences.  Kit and gateway names are strings.     *)
(* Python dicts keep insertion order: a dict is a sequence of <<key,       *)
(* value>> pairs with distinct keys.                                       *)
(***************************************************************************)
EXTENDS Integers, Sequences, FiniteSets, TLC

VARIABLES
    servers_map,        \* DownstreamController._servers_map
    tools_map,          \* DownstreamController._tools_map
    all_servers_tools,  \* DownstreamController._all_servers_tools
    initialized,        \* DownstreamController._initialized
    closed,             \* names of the servers whose shutdown() has run
    kits,               \* the ServerKit objects ever built, by identity
    server_kits_map,    \* Composer.server_kits_map: name -> kit identity
    gateway_map,        \* Composer.gateway_map: name -> Gateway
    routes,             \* Composer._asgi_app.routes: the mounted names
    file,               \* contents of config_path
    bak,                \* contents of config_path with suffix .bak
    pc,                 \* position of each concurrent manager call
    loaded,             \* config_data held by each concurrent manager call
    last,               \* the operation that ran last, with its outcome
    steps               \* number of operations run so far

vars == <<servers_map, tools_map, all_servers_tools, initialized, closed,
          kits, server_kits_map, gateway_map, routes, file, bak, pc, loaded,
          last, steps>>

----------------------------------------------------------------------------
(* Bounds and input sets *)

MaxSteps == 4
MaxKits == 3
MaxSaves == 3

SrvA == <<"a">>
SrvAB == <<"a", "b">>
SrvX == <<"x">>
ServerNames == {SrvA, SrvAB, SrvX}
KitNames == {"k1", "k2"}
GatewayNames == {"k1", "k2", "k3"}

----------------------------------------------------------------------------
(* dict and list primitives *)

Range(s) == {s[i] : i \in 1..Len(s)}

DictKeys(d) == {d[i][1] : i \in 1..Len(d)}

DictHas(d, k) == \E i \in 1..Len(d) : d[i][1] = k

DictGet(d, k) == d[CHOOSE i \in 1..Len(d) : d[i][1] = k][2]

DictSet(d, k, v) ==
    IF DictHas(d, k)
    THEN [i \in 1..Len(d) |-> IF d[i][1] = k THEN <<k, v>> ELSE d[i]]
    ELSE Append(d, <<k, v>>)

DictDel(d, k) == SelectSeq(d, LAMBDA p : p[1] # k)

\* list.remove(x): drops the first occurrence
RECURSIVE ListRemove(_, _)
ListRemove(s, x) ==
    IF s = <<>> THEN <<>>
    ELSE IF Head(s) = x THEN Tail(s)
    ELSE <<Head(s)>> \o ListRemove(Tail(s), x)

\* f"{server_name}-{tool_name}"
ControlName(server_name, tool_name) == server_name \o tool_name

\* name.startswith(f"{server_name}-")
StartsWith(name, server_name) ==
    /\ Len(name) > Len(server_name)
    /\ SubSeq(name, 1, Len(server_name)) = server_name

----------------------------------------------------------------------------
(* ServerKit *)

new_server_kit(name) ==
    [name |-> name,
     enabled |-> TRUE,
     assigned_servers |-> <<>>,
     servers_enabled |-> <<>>,
     tools_enabled |-> <<>>,
     servers_tools_hierarchy_map |-> <<>>,
     tools_servers_map |-> <<>>]

\* The result of a call: either a value or a raised KeyError.
Returned(v) == [raised |-> FALSE, value |-> v]
KeyError == [raised |-> TRUE, value |-> <<>>]

RECURSIVE list_enabled_from(_, _)
list_enabled_from(kit, i) ==
    IF i > Len(kit.tools_enabled) THEN Returned(<<>>)
    ELSE
      LET tool_name == kit.tools_enabled[i][1]
          enabled == kit.tools_enabled[i][2]
          rest == list_enabled_from(kit, i + 1)
      IN
      IF ~DictHas(kit.tools_servers_map, tool_name) THEN KeyError
      ELSE
        LET server_name == DictGet(kit.tools_servers_map, tool_name) IN
        IF kit.assigned_servers # <<>>
             /\ server_name \notin Range(kit.assigned_servers)
        THEN rest
        ELSE IF ~DictHas(kit.servers_enabled, server_name) THEN KeyError
        ELSE IF ~DictGet(kit.servers_enabled, server_name) THEN rest
        ELSE IF ~enabled THEN rest
        ELSE IF rest.raised THEN rest
        ELSE Returned(<<tool_name>> \o rest.value)

\* variant: the servers_enabled flag of the owning server is not consulted
RECURSIVE list_ignoring_servers_from(_, _)
list_ignoring_servers_from(kit, i) ==
    IF i > Len(kit.tools_enabled) THEN Returned(<<>>)
    ELSE
      LET tool_name == kit.tools_enabled[i][1]
          rest == list_ignoring_servers_from(kit, i + 1)
      IN
      IF ~DictHas(kit.tools_servers_map, tool_name) THEN KeyError
      ELSE IF kit.assigned_servers # <<>>
                /\ DictGet(kit.tools_servers_map, tool_name)
                      \notin Range(kit.assigned_servers)
      THEN rest
      ELSE IF ~kit.tools_enabled[i][2] THEN rest
      ELSE IF rest.raised THEN rest
      ELSE Returned(<<tool_name>> \o rest.value)

list_ignoring_servers(kit) == list_ignoring_servers_from(kit, 1)

list_enabled_tool_names(kit) == list_enabled_from(kit, 1)

\* variant: disabling the kit also switches every server flag off
disable_kit_cascading(kit) ==
    [kit EXCEPT !.enabled = FALSE,
                !.servers_enabled = [i \in 1..Len(@) |-> <<@[i][1], FALSE>>]]

disable_kit(kit) == [kit EXCEPT !.enabled = FALSE]

enable_kit(kit) == [kit EXCEPT !.enabled = TRUE]

disable_server(kit, server_name) ==
    [kit EXCEPT !.servers_enabled = DictSet(@, server_name, FALSE)]

enable_server(kit, server_name) ==
    [kit EXCEPT !.servers_enabled = DictSet(@, server_name, TRUE)]

disable_tool(kit, tool_name) ==
    [kit EXCEPT !.tools_enabled = DictSet(@, tool_name, FALSE)]

enable_tool(kit, tool_name) ==
    [kit EXCEPT !.tools_enabled = DictSet(@, tool_name, TRUE)]

is_server_assigned(kit, server_name) ==
    server_name \in Range(kit.assigned_servers)

\* variant: the server is appended but not enabled
assign_mcp_server_without_enable(kit, server_name) ==
    IF server_name \notin Range(kit.assigned_servers)
    THEN [kit EXCEPT !.assigned_servers = Append(@, server_name)]
    ELSE kit

assign_mcp_server(kit, server_name) ==
    IF server_name \notin Range(kit.assigned_servers)
    THEN [kit EXCEPT !.assigned_servers = Append(@, server_name),
                     !.servers_enabled = DictSet(@, server_name, TRUE)]
    ELSE kit

\* variant: the tools are found by the prefix of their name
unassign_mcp_server_by_prefix(kit, server_name) ==
    IF server_name \in Range(kit.assigned_servers)
    THEN
      LET tools_to_remove ==
            {p[1] : p \in {q \in Range(kit.tools_servers_map) :
                              StartsWith(q[1], server_name)}}
      IN [kit EXCEPT
            !.assigned_servers = ListRemove(@, server_name),
            !.servers_enabled = DictDel(@, server_name),
            !.tools_enabled =
                SelectSeq(@, LAMBDA p : p[1] \notin tools_to_remove),
            !.tools_servers_map =
                SelectSeq(@, LAMBDA p : p[1] \notin tools_to_remove),
            !.servers_tools_hierarchy_map = DictDel(@, server_name)]
    ELSE kit

\* variant: the hierarchy of the server is kept
unassign_mcp_server_keeping_hierarchy(kit, server_name) ==
    IF server_name \in Range(kit.assigned_servers)
    THEN
      LET tools_to_remove ==
            {p[1] : p \in {q \in Range(kit.tools_servers_map) :
                              q[2] = server_name}}
      IN [kit EXCEPT
            !.assigned_servers = ListRemove(@, server_name),
            !.servers_enabled = DictDel(@, server_name),
            !.tools_enabled =
                SelectSeq(@, LAMBDA p : p[1] \notin tools_to_remove),
            !.tools_servers_map =
                SelectSeq(@, LAMBDA p : p[1] \notin tools_to_remove)]
    ELSE kit

unassign_mcp_server(kit, server_name) ==
    IF server_name \in Range(kit.assigned_servers)
    THEN
      LET tools_to_remove ==
            {p[1] : p \in {q \in Range(kit.tools_servers_map) :
                              q[2] = server_name}}
      IN [kit EXCEPT
            !.assigned_servers = ListRemove(@, server_name),
            !.servers_enabled = DictDel(@, server_name),
            !.tools_enabled =
                SelectSeq(@, LAMBDA p : p[1] \notin tools_to_remove),
            !.tools_servers_map =
                SelectSeq(@, LAMBDA p : p[1] \notin tools_to_remove),
            !.servers_tools_hierarchy_map = DictDel(@, server_name)]
    ELSE kit

----------------------------------------------------------------------------
(* DownstreamController *)

\* What each downstream answers to list_tools(): its original tool names.
DownstreamTools(server_name) ==
    IF server_name = SrvA THEN << <<"t1">>, <<"t2">> >>
    ELSE IF server_name = SrvAB THEN << <<"t1">> >>
    ELSE <<>>

\* The configs the controller is built with (the mcpServers of the file).
configs == <<SrvA, SrvAB>>

DownstreamMCPServer(name) == [name |-> name]

DownstreamMCPServerTool(server_control_name, tool_name) ==
    [server_control_name |-> server_control_name,
     name |-> tool_name,
     control_name |-> ControlName(server_control_name, tool_name)]

Registry(sm, tm, ast) ==
    [servers_map |-> sm, tools_map |-> tm, all_servers_tools |-> ast]

RECURSIVE set_tools(_, _)
set_tools(tm, tools) ==
    IF tools = <<>> THEN tm
    ELSE set_tools(DictSet(tm, Head(tools).control_name, Head(tools)),
                   Tail(tools))

register_downstream_mcp_server(reg, name) ==
    LET server == DownstreamMCPServer(name)
        names == DownstreamTools(name)
        tools == [i \in 1..Len(names) |->
                    DownstreamMCPServerTool(name, names[i])]
    IN Registry(DictSet(reg.servers_map, name, server),
                set_tools(reg.tools_map, tools),
                Append(reg.all_servers_tools, <<server, tools>>))

\* register_downstream_mcp_server after the await of server.initialize: the
\* session enters _servers_map
publish_server(reg, name) ==
    Registry(DictSet(reg.servers_map, name, DownstreamMCPServer(name)),
             reg.tools_map, reg.all_servers_tools)

\* register_downstream_mcp_server after the await of server.list_tools: the
\* entry of the list and the tools of the map, for the tool names returned
publish_tools(reg, name, names) ==
    LET tools == [i \in 1..Len(names) |->
                    DownstreamMCPServerTool(name, names[i])]
    IN Registry(reg.servers_map, set_tools(reg.tools_map, tools),
                Append(reg.all_servers_tools,
                       <<DownstreamMCPServer(name), tools>>))

RECURSIVE initialize(_, _)
initialize(reg, cfgs) ==
    IF cfgs = <<>> THEN reg
    ELSE initialize(register_downstream_mcp_server(reg, Head(cfgs)),
                    Tail(cfgs))

\* add_server_dynamically: [raised, reg]
add_server_dynamically(reg, name) ==
    IF DictHas(reg.servers_map, name)
    THEN [raised |-> TRUE, reg |-> reg]
    ELSE [raised |-> FALSE, reg |-> register_downstream_mcp_server(reg, name)]

\* variant: the tools of the server stay in the tools map
remove_server_dynamically_keeping_tools(reg, server_name) ==
    IF ~DictHas(reg.servers_map, server_name)
    THEN [raised |-> TRUE, reg |-> reg]
    ELSE [raised |-> FALSE,
          reg |-> Registry(
              DictDel(reg.servers_map, server_name),
              reg.tools_map,
              SelectSeq(reg.all_servers_tools,
                        LAMBDA e : e[1].name # server_name))]

\* remove_server_dynamically: [raised, reg]; the caller shuts the server down
remove_server_dynamically(reg, server_name) ==
    IF ~DictHas(reg.servers_map, server_name)
    THEN [raised |-> TRUE, reg |-> reg]
    ELSE [raised |-> FALSE,
          reg |-> Registry(
              DictDel(reg.servers_map, server_name),
              SelectSeq(reg.tools_map,
                        LAMBDA p : p[2].server_control_name # server_name),
              SelectSeq(reg.all_servers_tools,
                        LAMBDA e : e[1].name # server_name))]

\* variant: the membership test is negated
check_server_dependencies_negated(server_name, kit_objs, kits_map) ==
    SelectSeq([i \in 1..Len(kits_map) |-> kits_map[i][1]],
              LAMBDA kit_name :
                 ~is_server_assigned(kit_objs[DictGet(kits_map, kit_name)],
                                     server_name))

\* check_server_dependencies over the kits of a name -> kit map
check_server_dependencies(server_name, kit_objs, kits_map) ==
    SelectSeq([i \in 1..Len(kits_map) |-> kits_map[i][1]],
              LAMBDA kit_name :
                 is_server_assigned(kit_objs[DictGet(kits_map, kit_name)],
                                    server_name))

\* variant: the names come from the configs the controller was built with
list_available_servers_from_configs(reg) == configs

list_available_servers(reg) ==
    [i \in 1..Len(reg.servers_map) |-> reg.servers_map[i][1]]

----------------------------------------------------------------------------
(* Composer: kits *)

\* the loop over one server's tools (composer.py 54-61, api.py 438-442)
RECURSIVE add_server_tools(_, _, _, _)
add_server_tools(kit, server_name, tools, enabled) ==
    IF tools = <<>> THEN kit
    ELSE
      LET tool == Head(tools)
          next == [kit EXCEPT
             !.tools_enabled = DictSet(@, tool.control_name, enabled),
             !.servers_tools_hierarchy_map =
                 DictSet(@, server_name,
                         Append(DictGet(@, server_name), tool.control_name)),
             !.tools_servers_map =
                 DictSet(@, tool.control_name, server_name)]
      IN add_server_tools(next, server_name, Tail(tools), enabled)

RECURSIVE create_from(_, _, _)
create_from(kit, ast, enabled) ==
    IF ast = <<>> THEN kit
    ELSE
      LET server_name == Head(ast)[1].name
          tools == Head(ast)[2]
          start == [kit EXCEPT
             !.servers_enabled = DictSet(@, server_name, enabled),
             !.servers_tools_hierarchy_map = DictSet(@, server_name, <<>>)]
      IN create_from(add_server_tools(start, server_name, tools, enabled),
                     Tail(ast), enabled)

\* variant: the default is ignored, every entry is enabled
create_server_kit_all_enabled(reg, name, enabled) ==
    create_from(new_server_kit(name), reg.all_servers_tools, TRUE)

\* Composer.create_server_kit: the kit it builds (when initialized)
create_server_kit(reg, name, enabled) ==
    create_from(new_server_kit(name), reg.all_servers_tools, enabled)

----------------------------------------------------------------------------
(* ConfigurationManager.  A JSON document is a dict; the contents of a     *)
(* path are absent, a JSON document, or the partial text that an           *)
(* interrupted write leaves, which does not parse.                         *)

\* json.dump of a dict: the text of an object, its members in insertion
\* order, each a key followed by its value
json_dump(doc) ==
    [i \in 1..(2 * Len(doc)) |->
       IF i % 2 = 1 THEN doc[(i + 1) \div 2][1] ELSE doc[i \div 2][2]]

\* json.load of the text of an object
json_load(text) ==
    [i \in 1..(Len(text) \div 2) |-> <<text[2 * i - 1], text[2 * i]>>]

Absent == [kind |-> "absent", text |-> <<>>]
Partial == [kind |-> "partial", text |-> <<>>]
Json(doc) == [kind |-> "json", text |-> json_dump(doc)]

Fs(f, b) == [file |-> f, bak |-> b]

\* the outcome of a manager call: the exception it raised ("none" when it
\* returned), the files it leaves, the value it returned
Outcome(exc, fs, value) == [exc |-> exc, fs |-> fs, value |-> value]

DefaultDocument == << <<"mcpServers", <<>> >>, <<"serverKitAssignments", <<>> >> >>

\* variant: a document that lacks a section is replaced by the default one
load_configuration_or_default(fs) ==
    IF fs.file.kind = "absent" THEN Outcome("none", fs, DefaultDocument)
    ELSE IF fs.file.kind = "partial" THEN Outcome("JSONDecodeError", fs, <<>>)
    ELSE
      LET data == json_load(fs.file.text) IN
      IF ~DictHas(data, "mcpServers") \/ ~DictHas(data, "serverKitAssignments")
      THEN Outcome("none", fs, DefaultDocument)
      ELSE Outcome("none", fs, data)

load_configuration(fs) ==
    IF fs.file.kind = "absent" THEN Outcome("none", fs, DefaultDocument)
    ELSE IF fs.file.kind = "partial" THEN Outcome("JSONDecodeError", fs, <<>>)
    ELSE
      LET data == json_load(fs.file.text)
          d1 == IF ~DictHas(data, "mcpServers")
                THEN DictSet(data, "mcpServers", <<>>) ELSE data
          d2 == IF ~DictHas(d1, "serverKitAssignments")
                THEN DictSet(d1, "serverKitAssignments", <<>>) ELSE d1
      IN Outcome("none", fs, d2)

\* the except branch of save_configuration: restore the backup, re-raise
restore_backup(fs) ==
    IF fs.bak.kind # "absent" THEN Fs(fs.bak, Absent) ELSE fs

\* fault: the step of save_configuration at which the OS fails
\* ("rename", "open", "write"), or "none"
save_configuration(fs, config_data, fault) ==
    LET exists == fs.file.kind # "absent"
        renamed == IF exists THEN Fs(Absent, fs.file) ELSE fs
        opened == Fs(Partial, renamed.bak)
        written == Fs(Json(config_data), renamed.bak)
    IN
    IF exists /\ fault = "rename"
    THEN Outcome("OSError", restore_backup(fs), <<>>)
    ELSE IF fault = "open"
    THEN Outcome("OSError", restore_backup(renamed), <<>>)
    ELSE IF fault = "write"
    THEN Outcome("OSError", restore_backup(opened), <<>>)
    ELSE Outcome("none", written, <<>>)

\* the files when the process stops inside save_configuration, at point
\* "renamed" (after the backup rename), "opened" (the target opened for
\* writing, nothing written), "partial" (part of the text written) or
\* "written" (after the write); no except branch runs
save_configuration_stopped(fs, config_data, point) ==
    LET exists == fs.file.kind # "absent"
        renamed == IF exists THEN Fs(Absent, fs.file) ELSE fs
    IN IF point = "renamed" THEN renamed
       ELSE IF point \in {"opened", "partial"} THEN Fs(Partial, renamed.bak)
       ELSE Fs(Json(config_data), renamed.bak)

\* the entry add_mcp_server writes for a server (no env given)
ServerEntry == [command |-> "cmd", args |-> <<>>]

\* the assignment of add_mcp_server between its load and its save
add_entry(config_data, name) ==
    DictSet(config_data, "mcpServers",
            DictSet(DictGet(config_data, "mcpServers"), name, ServerEntry))

add_mcp_server(fs, name, fault) ==
    LET l == load_configuration(fs) IN
    IF l.exc # "none" THEN l
    ELSE IF DictHas(DictGet(l.value, "mcpServers"), name)
    THEN Outcome("ValueError", fs, <<>>)
    ELSE save_configuration(fs, add_entry(l.value, name), fault)

\* one kit_config after the loop body of remove_mcp_server
remove_from_kit_config(kit_config, server_name) ==
    [kit_config EXCEPT
       !.assigned_servers = ListRemove(@, server_name),
       !.servers_enabled = DictDel(@, server_name),
       !.tools_enabled =
           SelectSeq(@, LAMBDA p : ~StartsWith(p[1], server_name))]

remove_mcp_server(fs, server_name, fault) ==
    LET l == load_configuration(fs) IN
    IF l.exc # "none" THEN l
    ELSE IF ~DictHas(DictGet(l.value, "mcpServers"), server_name)
    THEN Outcome("ValueError", fs, <<>>)
    ELSE
      LET servers == DictDel(DictGet(l.value, "mcpServers"), server_name)
          old == DictGet(l.value, "serverKitAssignments")
          assignments ==
              [i \in 1..Len(old) |->
                 <<old[i][1], remove_from_kit_config(old[i][2], server_name)>>]
      IN save_configuration(
           fs,
           DictSet(DictSet(l.value, "mcpServers", servers),
                   "serverKitAssignments", assignments),
           fault)

\* the assignment data written for a kit
KitConfig(server_kit) ==
    [assigned_servers |-> server_kit.assigned_servers,
     servers_enabled |-> server_kit.servers_enabled,
     tools_enabled |-> server_kit.tools_enabled,
     servers_tools_hierarchy_map |-> server_kit.servers_tools_hierarchy_map,
     tools_servers_map |-> server_kit.tools_servers_map]

update_server_kit_assignments(fs, server_kit, fault) ==
    LET l == load_configuration(fs) IN
    IF l.exc # "none" THEN l
    ELSE save_configuration(
           fs,
           DictSet(l.value, "serverKitAssignments",
                   DictSet(DictGet(l.value, "serverKitAssignments"),
                           server_kit.name, KitConfig(server_kit))),
           fault)

\* dict.update(other)
RECURSIVE DictUpdate(_, _)
DictUpdate(d, other) ==
    IF other = <<>> THEN d
    ELSE DictUpdate(DictSet(d, Head(other)[1], Head(other)[2]), Tail(other))

\* variant: only the first of the enabled servers
first_enabled_server(server_kit) ==
    LET on == SelectSeq(server_kit.servers_enabled, LAMBDA p : p[2])
    IN [i \in 1..(IF on = <<>> THEN 0 ELSE 1) |-> on[i][1]]

\* variant: every server of the kit, enabled or not
all_servers_of_kit(server_kit) ==
    [i \in 1..Len(server_kit.servers_enabled) |->
        server_kit.servers_enabled[i][1]]

\* the servers of a kit whose servers_enabled value is true, in its order
enabled_servers(server_kit) ==
    LET on == SelectSeq(server_kit.servers_enabled, LAMBDA p : p[2])
    IN [i \in 1..Len(on) |-> on[i][1]]

\* the loop of migrate_existing_server_kits from position i of the kit map:
\* [kits, assignments, needs_save]
RECURSIVE migrate_from(_, _, _, _, _)
migrate_from(kit_objs, kits_map, assignments, needs_save, i) ==
    IF i > Len(kits_map)
    THEN [kits |-> kit_objs, assignments |-> assignments,
          needs_save |-> needs_save]
    ELSE
      LET kit_name == kits_map[i][1]
          id == kits_map[i][2]
          server_kit == kit_objs[id]
      IN
      IF ~DictHas(assignments, kit_name)
      THEN
        LET migrated == [server_kit EXCEPT
                           !.assigned_servers = enabled_servers(server_kit)]
        IN migrate_from([kit_objs EXCEPT ![id] = migrated], kits_map,
                        DictSet(assignments, kit_name, KitConfig(migrated)),
                        TRUE, i + 1)
      ELSE
        LET assignment_data == DictGet(assignments, kit_name)
            overlaid == [server_kit EXCEPT
               !.assigned_servers = assignment_data.assigned_servers,
               !.servers_enabled =
                   DictUpdate(@, assignment_data.servers_enabled),
               !.tools_enabled =
                   DictUpdate(@, assignment_data.tools_enabled),
               !.servers_tools_hierarchy_map =
                   DictUpdate(@, assignment_data.servers_tools_hierarchy_map),
               !.tools_servers_map =
                   DictUpdate(@, assignment_data.tools_servers_map)]
        IN migrate_from([kit_objs EXCEPT ![id] = overlaid], kits_map,
                        assignments, needs_save, i + 1)

\* migrate_existing_server_kits: [exc, fs, kits]
migrate_existing_server_kits(fs, kit_objs, kits_map, fault) ==
    LET l == load_configuration(fs) IN
    IF l.exc # "none" THEN [exc |-> l.exc, fs |-> fs, kits |-> kit_objs]
    ELSE
      LET m == migrate_from(kit_objs, kits_map,
                            DictGet(l.value, "serverKitAssignments"), FALSE, 1)
          s == save_configuration(
                 fs, DictSet(l.value, "serverKitAssignments", m.assignments),
                 fault)
      IN IF m.needs_save
         THEN [exc |-> s.exc, fs |-> s.fs, kits |-> m.kits]
         ELSE [exc |-> "none", fs |-> fs, kits |-> m.kits]

----------------------------------------------------------------------------
(* Gateway: the two request handlers of the per-kit MCP server *)

Gateway(kit_id) == [server_kit |-> kit_id]

ToolResult(is_error, forwarded) ==
    [fault |-> FALSE, is_error |-> is_error, forwarded |-> forwarded]

\* variant: a transport failure of the downstream call escapes the handler
call_tool_handler_unguarded(kit, reg, shut, control_name, downstream) ==
    IF ~kit.enabled THEN ToolResult(TRUE, FALSE)
    ELSE
      LET visible == list_enabled_tool_names(kit) IN
      IF visible.raised \/ control_name \notin Range(visible.value)
      THEN ToolResult(TRUE, FALSE)
      ELSE IF ~DictHas(reg.tools_map, control_name)
      THEN ToolResult(TRUE, FALSE)
      ELSE
        LET tool == DictGet(reg.tools_map, control_name) IN
        IF ~DictHas(reg.servers_map, tool.server_control_name)
        THEN ToolResult(TRUE, FALSE)
        ELSE IF tool.server_control_name \in shut
        THEN ToolResult(TRUE, FALSE)
        ELSE [fault |-> downstream = "transport",
              is_error |-> downstream = "tool_error",
              forwarded |-> TRUE]

\* downstream: what the session's call_tool does when it is invoked:
\* "ok", "tool_error" (a result with isError) or "transport" (it raises)
call_tool_handler(kit, reg, shut, control_name, downstream) ==
    IF ~kit.enabled THEN ToolResult(TRUE, FALSE)
    ELSE
      LET visible == list_enabled_tool_names(kit) IN
      IF visible.raised \/ control_name \notin Range(visible.value)
      THEN ToolResult(TRUE, FALSE)
      ELSE IF ~DictHas(reg.tools_map, control_name)
      THEN ToolResult(TRUE, FALSE)
      ELSE
        LET tool == DictGet(reg.tools_map, control_name) IN
        IF ~DictHas(reg.servers_map, tool.server_control_name)
        THEN ToolResult(TRUE, FALSE)
        ELSE IF tool.server_control_name \in shut
        THEN ToolResult(TRUE, FALSE)
        ELSE ToolResult(downstream # "ok", TRUE)

list_tools_handler(kit, reg) ==
    IF ~kit.enabled THEN [fault |-> FALSE, tools |-> <<>>]
    ELSE
      LET visible == list_enabled_tool_names(kit) IN
      IF visible.raised
           \/ \E t \in Range(visible.value) : ~DictHas(reg.tools_map, t)
      THEN [fault |-> TRUE, tools |-> <<>>]
      ELSE [fault |-> FALSE, tools |-> visible.value]

----------------------------------------------------------------------------
(* Composer: gateways *)

\* variant: no mounted path matches
remove_route_from_app_no_match(rt, name) == rt

remove_route_from_app(rt, name) == SelectSeq(rt, LAMBDA r : r # name)

\* variant: an existing gateway is replaced and mounted again
add_gateway_unchecked(gm, rt, name, kit_id) ==
    [exc |-> "none",
     gateway_map |-> DictSet(gm, name, Gateway(kit_id)),
     routes |-> Append(rt, name)]

\* Composer.add_gateway: [exc, gateway_map, routes]
add_gateway(gm, rt, name, kit_id) ==
    IF DictHas(gm, name)
    THEN [exc |-> "exists", gateway_map |-> gm, routes |-> rt]
    ELSE [exc |-> "none",
          gateway_map |-> DictSet(gm, name, Gateway(kit_id)),
          routes |-> Append(rt, name)]

\* variant: the existence check comes before the last-gateway check
remove_gateway_checks_swapped(gm, rt, name) ==
    IF ~DictHas(gm, name)
    THEN [exc |-> "not_exist", gateway_map |-> gm, routes |-> rt]
    ELSE IF Len(gm) = 1
    THEN [exc |-> "last_gateway", gateway_map |-> gm, routes |-> rt]
    ELSE [exc |-> "none",
          gateway_map |-> DictDel(gm, name),
          routes |-> remove_route_from_app(rt, name)]

\* variant: the last-gateway check compares with 0
remove_gateway_off_by_one(gm, rt, name) ==
    IF Len(gm) = 0
    THEN [exc |-> "last_gateway", gateway_map |-> gm, routes |-> rt]
    ELSE IF ~DictHas(gm, name)
    THEN [exc |-> "not_exist", gateway_map |-> gm, routes |-> rt]
    ELSE [exc |-> "none",
          gateway_map |-> DictDel(gm, name),
          routes |-> remove_route_from_app(rt, name)]

\* Composer.remove_gateway: [exc, gateway_map, routes]
remove_gateway(gm, rt, name) ==
    IF Len(gm) = 1
    THEN [exc |-> "last_gateway", gateway_map |-> gm, routes |-> rt]
    ELSE IF ~DictHas(gm, name)
    THEN [exc |-> "not_exist", gateway_map |-> gm, routes |-> rt]
    ELSE [exc |-> "none",
          gateway_map |-> DictDel(gm, name),
          routes |-> remove_route_from_app(rt, name)]

----------------------------------------------------------------------------
(* State, inputs and bookkeeping *)

Tasks == {1, 2, 3}

ToolNames == {ControlName(SrvA, <<"t1">>), ControlName(SrvA, <<"t2">>),
              ControlName(SrvAB, <<"t1">>), ControlName(SrvX, <<"t1">>)}

\* failures of the file system under an admin request
ApiFaults == {"none", "open"}

Downstreams == {"ok", "tool_error", "transport"}

\* the document the controller's configs were read from
InitialDocument ==
    << <<"mcpServers", << <<SrvA, ServerEntry>>, <<SrvAB, ServerEntry>> >> >>,
       <<"serverKitAssignments", <<>> >> >>

Reg == Registry(servers_map, tools_map, all_servers_tools)

Files == Fs(file, bak)

Op(op, kit, name, res) ==
    [op |-> op, kit |-> kit, name |-> name, res |-> res,
     flag |-> FALSE, is_error |-> FALSE, forwarded |-> FALSE]

\* a request with a boolean argument (enabled, auto_enable)
OpFlag(op, kit, name, res, flag) == [Op(op, kit, name, res) EXCEPT !.flag = flag]

Tick == steps < MaxSteps /\ steps' = steps + 1

regVars == <<servers_map, tools_map, all_servers_tools, initialized, closed>>
kitVars == <<kits, server_kits_map>>
gwVars == <<gateway_map, routes>>
fsVars == <<file, bak>>
taskVars == <<pc, loaded>>

SetReg(reg) ==
    /\ servers_map' = reg.servers_map
    /\ tools_map' = reg.tools_map
    /\ all_servers_tools' = reg.all_servers_tools

SetFiles(fs) == file' = fs.file /\ bak' = fs.bak

Init ==
    /\ servers_map = <<>>
    /\ tools_map = <<>>
    /\ all_servers_tools = <<>>
    /\ initialized = FALSE
    /\ closed = {}
    /\ kits = <<>>
    /\ server_kits_map = <<>>
    /\ gateway_map = <<>>
    /\ routes = <<>>
    /\ file = Json(InitialDocument)
    /\ bak = Absent
    /\ pc = [t \in Tasks |-> "idle"]
    /\ loaded = [t \in Tasks |-> <<>>]
    /\ last = Op("init", "", <<>>, "none")
    /\ steps = 0

----------------------------------------------------------------------------
(* DownstreamController lifecycle *)

Initialize ==
    /\ Tick
    /\ ~initialized
    /\ SetReg(initialize(Reg, configs))
    /\ initialized' = TRUE
    /\ last' = Op("initialize", "", <<>>, "none")
    /\ UNCHANGED <<closed, kitVars, gwVars, fsVars, taskVars>>

Shutdown ==
    /\ Tick
    /\ initialized
    /\ closed' = closed \cup {e[1].name : e \in Range(all_servers_tools)}
    /\ last' = Op("shutdown", "", <<>>, "none")
    /\ UNCHANGED <<servers_map, tools_map, all_servers_tools, initialized,
                   kitVars, gwVars, fsVars, taskVars>>

----------------------------------------------------------------------------
(* Kit operations of the Composer and their API handlers *)

\* Composer.create_server_kit(name, enabled)
CreateServerKit(name, enabled) ==
    /\ Tick
    /\ Len(kits) < MaxKits
    /\ IF ~initialized
       THEN /\ last' = OpFlag("create_server_kit", name, <<>>,
                                "ValueError", enabled)
            /\ UNCHANGED kitVars
       ELSE /\ kits' = Append(kits, create_server_kit(Reg, name, enabled))
            /\ server_kits_map' = DictSet(server_kits_map, name, Len(kits) + 1)
            /\ last' = OpFlag("create_server_kit", name, <<>>, "none",
                                enabled)
    /\ UNCHANGED <<regVars, gwVars, fsVars, taskVars>>

\* the ServerKit method a kit-scoped Composer method calls
kit_method(op, kit, arg) ==
    CASE op = "disable_server_kit" -> disable_kit(kit)
      [] op = "enable_server_kit" -> enable_kit(kit)
      [] op = "disable_server" -> disable_server(kit, arg)
      [] op = "enable_server" -> enable_server(kit, arg)
      [] op = "disable_tool" -> disable_tool(kit, arg)
      [] op = "enable_tool" -> enable_tool(kit, arg)

\* a kit-scoped Composer method: [exc, kits]; server_kits_map[name] raises
\* KeyError when there is no such kit
kit_scoped(op, name, arg) ==
    IF ~DictHas(server_kits_map, name)
    THEN [exc |-> "KeyError", kits |-> kits]
    ELSE [exc |-> "none",
          kits |-> [kits EXCEPT ![DictGet(server_kits_map, name)] =
                                    kit_method(op, @, arg)]]

DisableServerKit(name) ==
    /\ Tick
    /\ kits' = kit_scoped("disable_server_kit", name, <<>>).kits
    /\ last' = Op("disable_server_kit", name, <<>>,
                  kit_scoped("disable_server_kit", name, <<>>).exc)
    /\ UNCHANGED <<server_kits_map, regVars, gwVars, fsVars, taskVars>>

EnableServerKit(name) ==
    /\ Tick
    /\ kits' = kit_scoped("enable_server_kit", name, <<>>).kits
    /\ last' = Op("enable_server_kit", name, <<>>,
                  kit_scoped("enable_server_kit", name, <<>>).exc)
    /\ UNCHANGED <<server_kits_map, regVars, gwVars, fsVars, taskVars>>

DisableServer(name, server_name) ==
    /\ Tick
    /\ kits' = kit_scoped("disable_server", name, server_name).kits
    /\ last' = Op("disable_server", name, server_name,
                  kit_scoped("disable_server", name, server_name).exc)
    /\ UNCHANGED <<server_kits_map, regVars, gwVars, fsVars, taskVars>>

EnableServer(name, server_name) ==
    /\ Tick
    /\ kits' = kit_scoped("enable_server", name, server_name).kits
    /\ last' = Op("enable_server", name, server_name,
                  kit_scoped("enable_server", name, server_name).exc)
    /\ UNCHANGED <<server_kits_map, regVars, gwVars, fsVars, taskVars>>

DisableTool(name, tool_name) ==
    /\ Tick
    /\ kits' = kit_scoped("disable_tool", name, tool_name).kits
    /\ last' = Op("disable_tool", name, tool_name,
                  kit_scoped("disable_tool", name, tool_name).exc)
    /\ UNCHANGED <<server_kits_map, regVars, gwVars, fsVars, taskVars>>

EnableTool(name, tool_name) ==
    /\ Tick
    /\ kits' = kit_scoped("enable_tool", name, tool_name).kits
    /\ last' = Op("enable_tool", name, tool_name,
                  kit_scoped("enable_tool", name, tool_name).exc)
    /\ UNCHANGED <<server_kits_map, regVars, gwVars, fsVars, taskVars>>

----------------------------------------------------------------------------
(* Gateways *)

\* the bodies a client may send with POST /gateways: the kit as the
\* composer would build it, an empty kit, a kit naming one tool only
Bodies(built) ==
    {[servers_enabled |-> built.servers_enabled,
      tools_enabled |-> built.tools_enabled],
     [servers_enabled |-> <<>>, tools_enabled |-> <<>>],
     [servers_enabled |-> <<>>,
      tools_enabled |-> << <<ControlName(SrvA, <<"t1">>), TRUE>> >>]}

\* POST /gateways
AddGateway(name) ==
    /\ Tick
    /\ Len(kits) < MaxKits
    /\ IF ~initialized
       THEN /\ last' = Op("add_gateway", name, <<>>, "500")
            /\ UNCHANGED <<kitVars, gwVars>>
       ELSE \E body \in Bodies(create_server_kit(Reg, name, TRUE)) :
            LET built == create_server_kit(Reg, name, TRUE)
                server_kit == [built EXCEPT
                                 !.servers_enabled = body.servers_enabled,
                                 !.tools_enabled = body.tools_enabled]
                id == Len(kits) + 1
                r == add_gateway(gateway_map, routes, name, id)
            IN /\ kits' = Append(kits, server_kit)
               /\ server_kits_map' = DictSet(server_kits_map, name, id)
               /\ gateway_map' = r.gateway_map
               /\ routes' = r.routes
               /\ last' = Op("add_gateway", name, <<>>,
                             IF r.exc = "none" THEN "200" ELSE "500")
    /\ UNCHANGED <<regVars, fsVars, taskVars>>

\* DELETE /gateways/{name}: Composer.remove_gateway
RemoveGateway(name) ==
    /\ Tick
    /\ LET r == remove_gateway(gateway_map, routes, name) IN
       /\ gateway_map' = r.gateway_map
       /\ routes' = r.routes
       /\ last' = Op("remove_gateway", name, <<>>, r.exc)
    /\ UNCHANGED <<regVars, kitVars, fsVars, taskVars>>

\* the ListTools request of gateway name
ListTools(name) ==
    /\ Tick
    /\ DictHas(gateway_map, name)
    /\ LET r == list_tools_handler(kits[DictGet(gateway_map, name).server_kit],
                                   Reg)
       IN last' = Op("list_tools", name, <<>>,
                     IF r.fault THEN "fault" ELSE "result")
    /\ UNCHANGED <<regVars, kitVars, gwVars, fsVars, taskVars>>

\* the CallTool request of gateway name for control_name
CallTool(name, control_name) ==
    /\ Tick
    /\ DictHas(gateway_map, name)
    /\ \E downstream \in Downstreams :
         LET r == call_tool_handler(
                     kits[DictGet(gateway_map, name).server_kit],
                     Reg, closed, control_name, downstream)
         IN last' = [Op("call_tool", name, control_name,
                        IF r.fault THEN "fault" ELSE "result")
                       EXCEPT !.is_error = r.is_error,
                              !.forwarded = r.forwarded]
    /\ UNCHANGED <<regVars, kitVars, gwVars, fsVars, taskVars>>

----------------------------------------------------------------------------
(* MCP server management and assignment endpoints *)

CreateNames == {SrvA, SrvAB}

\* the HTTP status a handler maps an exception of the manager to; not_found
\* is the status of its "except ValueError" branch (JSONDecodeError is a
\* ValueError)
Status(exc, value_error) ==
    IF exc = "none" THEN "200"
    ELSE IF exc \in {"ValueError", "JSONDecodeError"} THEN value_error
    ELSE "500"

\* variant: the registration is undone when the configuration is not saved
CreateMcpServerRollingBack(name) ==
    /\ Tick
    /\ LET a == add_server_dynamically(Reg, name) IN
       IF a.raised
       THEN /\ last' = Op("create_mcp_server", "", name, "400")
            /\ UNCHANGED <<servers_map, tools_map, all_servers_tools, closed,
                           fsVars>>
       ELSE \E fault \in ApiFaults :
            LET c == add_mcp_server(Files, name, fault) IN
            /\ IF c.exc = "none" THEN SetReg(a.reg) ELSE SetReg(Reg)
            /\ closed' = closed \ {name}
            /\ SetFiles(c.fs)
            /\ last' = Op("create_mcp_server", "", name, Status(c.exc, "400"))
    /\ UNCHANGED <<initialized, kitVars, gwVars, taskVars>>

\* POST /mcp
CreateMcpServer(name) ==
    /\ Tick
    /\ LET a == add_server_dynamically(Reg, name) IN
       IF a.raised
       THEN /\ last' = Op("create_mcp_server", "", name, "400")
            /\ UNCHANGED <<servers_map, tools_map, all_servers_tools, closed,
                           fsVars>>
       ELSE \E fault \in ApiFaults :
            LET c == add_mcp_server(Files, name, fault) IN
            /\ SetReg(a.reg)
            /\ closed' = closed \ {name}
            /\ SetFiles(c.fs)
            /\ last' = Op("create_mcp_server", "", name, Status(c.exc, "400"))
    /\ UNCHANGED <<initialized, kitVars, gwVars, taskVars>>

\* DELETE /mcp/{server_name}
DeleteMcpServer(server_name) ==
    /\ Tick
    /\ LET dependencies ==
             check_server_dependencies(server_name, kits, server_kits_map)
           r == remove_server_dynamically(Reg, server_name)
       IN
       IF dependencies # <<>>
       THEN /\ last' = Op("delete_mcp_server", "", server_name, "400")
            /\ UNCHANGED <<servers_map, tools_map, all_servers_tools, closed,
                           fsVars>>
       ELSE IF r.raised
       THEN /\ last' = Op("delete_mcp_server", "", server_name, "404")
            /\ UNCHANGED <<servers_map, tools_map, all_servers_tools, closed,
                           fsVars>>
       ELSE \E fault \in ApiFaults :
            LET c == remove_mcp_server(Files, server_name, fault) IN
            /\ SetReg(r.reg)
            /\ closed' = closed \cup {server_name}
            /\ SetFiles(c.fs)
            /\ last' = Op("delete_mcp_server", "", server_name,
                          Status(c.exc, "404"))
    /\ UNCHANGED <<initialized, kitVars, gwVars, taskVars>>

\* the kit after the assignment steps of assign_server_to_kit
assign_server(kit, reg, server_name, auto_enable) ==
    LET assigned == assign_mcp_server(kit, server_name)
        found == SelectSeq(reg.all_servers_tools,
                           LAMBDA e : e[1].name = server_name)
    IN IF found = <<>> THEN assigned
       ELSE add_server_tools(
              [assigned EXCEPT !.servers_tools_hierarchy_map =
                                   DictSet(@, server_name, <<>>)],
              server_name, Head(found)[2], auto_enable)

\* POST /kits/{kit_name}/mcp/{server_name}/assign
AssignServerToKit(kit_name, server_name, auto_enable) ==
    /\ Tick
    /\ IF ~DictHas(server_kits_map, kit_name)
          \/ server_name \notin Range(list_available_servers(Reg))
       THEN /\ last' = OpFlag("assign_server_to_kit", kit_name, server_name,
                               "404", auto_enable)
            /\ UNCHANGED <<kits, fsVars>>
       ELSE
         LET id == DictGet(server_kits_map, kit_name) IN
         IF is_server_assigned(kits[id], server_name)
         THEN /\ last' = OpFlag("assign_server_to_kit", kit_name, server_name,
                                "400", auto_enable)
              /\ UNCHANGED <<kits, fsVars>>
         ELSE \E fault \in ApiFaults :
              LET server_kit == assign_server(kits[id], Reg, server_name,
                                              auto_enable)
                  c == update_server_kit_assignments(Files, server_kit, fault)
              IN /\ kits' = [kits EXCEPT ![id] = server_kit]
                 /\ SetFiles(c.fs)
                 /\ last' = OpFlag("assign_server_to_kit", kit_name,
                                   server_name, Status(c.exc, "404"),
                                   auto_enable)
    /\ UNCHANGED <<server_kits_map, regVars, gwVars, taskVars>>

\* POST /kits/{kit_name}/mcp/{server_name}/unassign
UnassignServerFromKit(kit_name, server_name) ==
    /\ Tick
    /\ IF ~DictHas(server_kits_map, kit_name)
       THEN /\ last' = Op("unassign_server_from_kit", kit_name, server_name,
                          "404")
            /\ UNCHANGED <<kits, fsVars>>
       ELSE
         LET id == DictGet(server_kits_map, kit_name) IN
         IF ~is_server_assigned(kits[id], server_name)
         THEN /\ last' = Op("unassign_server_from_kit", kit_name, server_name,
                            "400")
              /\ UNCHANGED <<kits, fsVars>>
         ELSE \E fault \in ApiFaults :
              LET server_kit == unassign_mcp_server(kits[id], server_name)
                  c == update_server_kit_assignments(Files, server_kit, fault)
              IN /\ kits' = [kits EXCEPT ![id] = server_kit]
                 /\ SetFiles(c.fs)
                 /\ last' = Op("unassign_server_from_kit", kit_name,
                               server_name, Status(c.exc, "404"))
    /\ UNCHANGED <<server_kits_map, regVars, gwVars, taskVars>>

----------------------------------------------------------------------------
(* The admin model: every operation, one request at a time *)

Next ==
    \/ Initialize
    \/ Shutdown
    \/ \E name \in KitNames, enabled \in BOOLEAN : CreateServerKit(name, enabled)
    \/ \E name \in KitNames : DisableServerKit(name)
    \/ \E name \in KitNames : EnableServerKit(name)
    \/ \E name \in KitNames, s \in ServerNames : DisableServer(name, s)
    \/ \E name \in KitNames, s \in ServerNames : EnableServer(name, s)
    \/ \E name \in KitNames, t \in ToolNames : DisableTool(name, t)
    \/ \E name \in KitNames, t \in ToolNames : EnableTool(name, t)
    \/ \E name \in KitNames : AddGateway(name)
    \/ \E name \in GatewayNames : RemoveGateway(name)
    \/ \E name \in KitNames : ListTools(name)
    \/ \E name \in KitNames, t \in ToolNames : CallTool(name, t)
    \/ \E name \in CreateNames : CreateMcpServer(name)
    \/ \E name \in ServerNames : DeleteMcpServer(name)
    \/ \E name \in KitNames, s \in ServerNames, auto_enable \in BOOLEAN :
         AssignServerToKit(name, s, auto_enable)
    \/ \E name \in KitNames, s \in ServerNames : UnassignServerFromKit(name, s)

Spec == Init /\ [][Next]_vars

----------------------------------------------------------------------------
(* The save model: save_configuration and load_configuration on their own, *)
(* from a fresh directory or an existing file, failing at any step         *)

SaveFaults == {"none", "rename", "open", "write"}

\* the documents handed to save_configuration
SaveDocuments ==
    {DefaultDocument, InitialDocument, add_entry(DefaultDocument, SrvX),
     <<>>,
     << <<"version", "1">>, <<"mcpServers", << <<SrvA, ServerEntry>> >> >> >>}

SaveInit ==
    /\ Init!1 /\ Init!2 /\ Init!3 /\ Init!4 /\ Init!5 /\ Init!6 /\ Init!7
    /\ Init!8 /\ Init!9
    /\ file \in {Absent, Json(InitialDocument)}
    /\ bak = Absent
    /\ Init!12 /\ Init!13 /\ Init!14 /\ Init!15

SaveConfiguration(config_data, fault) ==
    /\ steps < MaxSaves
    /\ steps' = steps + 1
    /\ LET o == save_configuration(Files, config_data, fault) IN
       /\ SetFiles(o.fs)
       /\ last' = Op("save_configuration", fault, config_data, o.exc)
    /\ UNCHANGED <<regVars, kitVars, gwVars, taskVars>>

LoadConfiguration ==
    /\ steps < MaxSaves
    /\ steps' = steps + 1
    /\ LET l == load_configuration(Files) IN
         last' = Op("load_configuration", "", l.value, l.exc)
    /\ UNCHANGED <<regVars, kitVars, gwVars, fsVars, taskVars>>

StopPoints == {"renamed", "opened", "partial", "written"}

\* the process stops inside save_configuration and is started again
SaveStopped(config_data, point) ==
    /\ steps < MaxSaves
    /\ steps' = steps + 1
    /\ SetFiles(save_configuration_stopped(Files, config_data, point))
    /\ last' = Op("save_stopped", point, config_data, "none")
    /\ UNCHANGED <<regVars, kitVars, gwVars, taskVars>>

SaveNext ==
    \/ \E config_data \in SaveDocuments, point \in StopPoints :
         SaveStopped(config_data, point)
    \/ \E config_data \in SaveDocuments, fault \in SaveFaults :
         SaveConfiguration(config_data, fault)
    \/ LoadConfiguration

SpecSave == SaveInit /\ [][SaveNext]_vars

----------------------------------------------------------------------------
(* The manager model: concurrent add_mcp_server calls.  Each call awaits   *)
(* load_configuration, which takes and releases the lock, and then awaits  *)
(* save_configuration, which takes and releases it again; the two awaits   *)
(* are the points where another call may run.                              *)

\* the name each concurrent call adds
TaskServer(t) == <<"s", CASE t = 1 -> "1" [] t = 2 -> "2" [] OTHER -> "3">>

\* add_mcp_server up to and including the duplicate check
ManagerLoad(t) ==
    /\ pc[t] = "idle"
    /\ LET l == load_configuration(Files) IN
       IF l.exc # "none"
       THEN /\ pc' = [pc EXCEPT ![t] = "failed"]
            /\ last' = Op("add_mcp_server", "", TaskServer(t), l.exc)
            /\ UNCHANGED loaded
       ELSE IF DictHas(DictGet(l.value, "mcpServers"), TaskServer(t))
       THEN /\ pc' = [pc EXCEPT ![t] = "failed"]
            /\ last' = Op("add_mcp_server", "", TaskServer(t), "ValueError")
            /\ UNCHANGED loaded
       ELSE /\ pc' = [pc EXCEPT ![t] = "loaded"]
            /\ loaded' = [loaded EXCEPT ![t] = l.value]
            /\ last' = Op("load_configuration", "", TaskServer(t), "none")
    /\ UNCHANGED <<regVars, kitVars, gwVars, fsVars, steps>>

\* the rest of add_mcp_server: the new entry and save_configuration
ManagerSave(t) ==
    /\ pc[t] = "loaded"
    /\ \E fault \in ApiFaults :
         LET o == save_configuration(Files,
                                     add_entry(loaded[t], TaskServer(t)), fault)
         IN /\ SetFiles(o.fs)
            /\ last' = Op("add_mcp_server", "", TaskServer(t), o.exc)
            /\ pc' = [pc EXCEPT ![t] = IF o.exc = "none" THEN "done"
                                                         ELSE "failed"]
    /\ UNCHANGED <<regVars, kitVars, gwVars, loaded, steps>>

ManagerNext == \E t \in Tasks : ManagerLoad(t) \/ ManagerSave(t)

SpecManager == Init /\ [][ManagerNext]_vars

----------------------------------------------------------------------------
(* The kit model: the methods of one ServerKit called directly, on a new   *)
(* kit or on a kit built from the registry of the configs                  *)

\* the registry after initialize()
ConfiguredRegistry == initialize(Registry(<<>>, <<>>, <<>>), configs)

KitInit ==
    /\ servers_map = ConfiguredRegistry.servers_map
    /\ tools_map = ConfiguredRegistry.tools_map
    /\ all_servers_tools = ConfiguredRegistry.all_servers_tools
    /\ initialized = TRUE
    /\ closed = {}
    /\ \E enabled \in BOOLEAN :
          kits \in { <<new_server_kit("k1")>>,
                     <<create_server_kit(ConfiguredRegistry, "k1", enabled)>> }
    /\ server_kits_map = << <<"k1", 1>> >>
    /\ Init!8 /\ Init!9 /\ Init!10 /\ Init!11 /\ Init!12 /\ Init!13
    /\ Init!14 /\ Init!15

\* server_kit.<op>(arg) on the kit
KitCall(op, arg) ==
    /\ Tick
    /\ kits' = [kits EXCEPT ![1] = kit_method(op, @, arg)]
    /\ last' = Op(op, "k1", arg, "none")
    /\ UNCHANGED <<server_kits_map, regVars, gwVars, fsVars, taskVars>>

AssignMcpServer(server_name) ==
    /\ Tick
    /\ kits' = [kits EXCEPT ![1] = assign_mcp_server(@, server_name)]
    /\ last' = Op("assign_mcp_server", "k1", server_name, "none")
    /\ UNCHANGED <<server_kits_map, regVars, gwVars, fsVars, taskVars>>

UnassignMcpServer(server_name) ==
    /\ Tick
    /\ kits' = [kits EXCEPT ![1] = unassign_mcp_server(@, server_name)]
    /\ last' = Op("unassign_mcp_server", "k1", server_name, "none")
    /\ UNCHANGED <<server_kits_map, regVars, gwVars, fsVars, taskVars>>

KitNext ==
    \/ \E op \in {"enable_server", "disable_server"}, s \in ServerNames :
         KitCall(op, s)
    \/ \E op \in {"enable_tool", "disable_tool"}, t \in ToolNames :
         KitCall(op, t)
    \/ \E s \in ServerNames : AssignMcpServer(s)
    \/ \E s \in ServerNames : UnassignMcpServer(s)

SpecKit == KitInit /\ [][KitNext]_vars

----------------------------------------------------------------------------
(* The registry model: concurrent add_server_dynamically calls on an       *)
(* initialized controller.  A call takes _asyncio_lock, checks the name    *)
(* and, still holding the lock, awaits the registration of the server.     *)

\* variant: the lock is never seen as held
lock_never_locked(p) == FALSE

\* _asyncio_lock.locked(): a call is between its check and the end of its
\* registration
lock_locked(p) == \E t \in Tasks : p[t] = "registering"

RegistryInit ==
    /\ servers_map = ConfiguredRegistry.servers_map
    /\ tools_map = ConfiguredRegistry.tools_map
    /\ all_servers_tools = ConfiguredRegistry.all_servers_tools
    /\ initialized = TRUE
    /\ Init!5 /\ Init!6 /\ Init!7 /\ Init!8 /\ Init!9 /\ Init!10 /\ Init!11
    /\ Init!12 /\ Init!13 /\ Init!14 /\ Init!15

\* add_server_dynamically up to the await of the registration
RegistryCheck(t, name) ==
    /\ pc[t] = "idle"
    /\ ~lock_locked(pc)
    /\ loaded' = [loaded EXCEPT ![t] = name]
    /\ IF add_server_dynamically(Reg, name).raised
       THEN /\ pc' = [pc EXCEPT ![t] = "failed"]
            /\ last' = Op("add_server_dynamically", "", name, "ValueError")
       ELSE /\ pc' = [pc EXCEPT ![t] = "registering"]
            /\ last' = Op("add_server_dynamically", "", name, "pending")
    /\ UNCHANGED <<regVars, kitVars, gwVars, fsVars, steps>>

\* the registration completes and the lock is released
RegistryRegister(t) ==
    /\ pc[t] = "registering"
    /\ SetReg(register_downstream_mcp_server(Reg, loaded[t]))
    /\ closed' = closed \ {loaded[t]}
    /\ pc' = [pc EXCEPT ![t] = "done"]
    /\ last' = Op("add_server_dynamically", "", loaded[t], "none")
    /\ UNCHANGED <<initialized, kitVars, gwVars, fsVars, loaded, steps>>

RegistryNext ==
    \/ \E t \in Tasks, name \in ServerNames : RegistryCheck(t, name)
    \/ \E t \in Tasks : RegistryRegister(t)

SpecRegistry == RegistryInit /\ [][RegistryNext]_vars

----------------------------------------------------------------------------
(* The migration model: a started composer whose kit k1 was built from the *)
(* registry of the configs, over the file that an earlier run left: with   *)
(* no assignment of k1, or with the assignment of k1 that an earlier run   *)
(* wrote.  Composer.migrate_server_kits runs among the kit operations.     *)

\* the assignments an earlier run may have written for k1
EarlierAssignments ==
    LET built == create_server_kit(ConfiguredRegistry, "k1", TRUE)
    IN { <<>>,
         << <<"k1", KitConfig(assign_server(built, ConfiguredRegistry, SrvA,
                                            FALSE))>> >>,
         << <<"k1", KitConfig(disable_tool(
                       assign_server(built, ConfiguredRegistry, SrvAB, TRUE),
                       ControlName(SrvAB, <<"t1">>)))>> >> }

MigrateInit ==
    /\ servers_map = ConfiguredRegistry.servers_map
    /\ tools_map = ConfiguredRegistry.tools_map
    /\ all_servers_tools = ConfiguredRegistry.all_servers_tools
    /\ initialized = TRUE
    /\ closed = {}
    /\ \E enabled \in BOOLEAN :
          kits = <<create_server_kit(ConfiguredRegistry, "k1", enabled)>>
    /\ server_kits_map = << <<"k1", 1>> >>
    /\ Init!8 /\ Init!9
    /\ \E assignments \in EarlierAssignments :
          file = Json(DictSet(InitialDocument, "serverKitAssignments",
                              assignments))
    /\ Init!11 /\ Init!12 /\ Init!13 /\ Init!14 /\ Init!15

\* Composer.migrate_server_kits
MigrateServerKits ==
    /\ Tick
    /\ \E fault \in ApiFaults :
         LET m == migrate_existing_server_kits(Files, kits, server_kits_map,
                                               fault)
         IN /\ kits' = m.kits
            /\ SetFiles(m.fs)
            /\ last' = Op("migrate_server_kits", "", <<>>, m.exc)
    /\ UNCHANGED <<server_kits_map, regVars, gwVars, taskVars>>

MigrateNext ==
    \/ MigrateServerKits
    \/ \E name \in KitNames, enabled \in BOOLEAN : CreateServerKit(name, enabled)
    \/ \E name \in KitNames, s \in ServerNames : DisableServer(name, s)
    \/ \E name \in KitNames, t \in ToolNames : DisableTool(name, t)
    \/ \E name \in KitNames, s \in ServerNames, auto_enable \in BOOLEAN :
         AssignServerToKit(name, s, auto_enable)

SpecMigrate == MigrateInit /\ [][MigrateNext]_vars

----------------------------------------------------------------------------
(* The session model: the controller from its construction, with every     *)
(* await of a registry mutation a step of its own.  Task 1 is the startup  *)
(* that calls initialize; the other tasks call add_server_dynamically and  *)
(* remove_server_dynamically.  A call holds _asyncio_lock from its start   *)
(* to its end or its exception.  loaded[t] is <<operation, names still to  *)
(* register or to shut down>>.  Code that reads the indices takes no lock  *)
(* and may run in any state.                                               *)

MaxCalls == 3

\* what list_tools of a server may return: the tools of the configuration,
\* or a tool whose name holds a hyphen
SessionTools(name) ==
    IF name = SrvA THEN {DownstreamTools(SrvA), << <<"b", "c">> >>}
    ELSE IF name = SrvAB THEN {DownstreamTools(SrvAB), << <<"c">> >>}
    ELSE {DownstreamTools(name)}

\* variant: no lock, a call never waits for another
session_lock_never_locked(p) == FALSE

\* variant: the lock is not released when the call ends with an exception
session_lock_kept_on_failure(p) ==
    \E t \in Tasks : p[t] \in {"connecting", "listing", "shutting", "failed"}

\* the servers of the entries of _all_servers_tools
ListedServers == {e[1].name : e \in Range(all_servers_tools)}

\* _asyncio_lock.locked()
session_lock_locked(p) ==
    \E t \in Tasks : p[t] \in {"connecting", "listing", "shutting"}

Call == steps < MaxCalls /\ steps' = steps + 1

\* initialize takes the lock and awaits the registration of the first config
InitializeStart ==
    /\ Call
    /\ pc[1] = "idle"
    /\ ~session_lock_locked(pc)
    /\ pc' = [pc EXCEPT ![1] = "connecting"]
    /\ loaded' = [loaded EXCEPT ![1] = <<"initialize", configs>>]
    /\ last' = Op("initialize", "", <<>>, "pending")
    /\ UNCHANGED <<regVars, kitVars, gwVars, fsVars>>

\* add_server_dynamically takes the lock, checks the name and awaits the
\* registration
AddStart(t, name) ==
    /\ Call
    /\ t # 1
    /\ pc[t] = "idle"
    /\ ~session_lock_locked(pc)
    /\ IF add_server_dynamically(Reg, name).raised
       THEN /\ last' = Op("add_server_dynamically", "", name, "ValueError")
            /\ UNCHANGED taskVars
       ELSE /\ pc' = [pc EXCEPT ![t] = "connecting"]
            /\ loaded' = [loaded EXCEPT ![t] =
                             <<"add_server_dynamically", <<name>> >>]
            /\ last' = Op("add_server_dynamically", "", name, "pending")
    /\ UNCHANGED <<regVars, kitVars, gwVars, fsVars>>

\* the await of server.initialize returns or raises
SessionInitialize(t) ==
    /\ pc[t] = "connecting"
    /\ LET name == Head(loaded[t][2]) IN
       \E connected \in BOOLEAN :
          IF connected
          THEN /\ SetReg(publish_server(Reg, name))
               /\ closed' = closed \ {name}
               /\ pc' = [pc EXCEPT ![t] = "listing"]
               /\ last' = Op(loaded[t][1], "", name, "pending")
          ELSE /\ pc' = [pc EXCEPT ![t] = IF t = 1 THEN "failed" ELSE "idle"]
               /\ last' = Op(loaded[t][1], "", name, "error")
               /\ UNCHANGED <<servers_map, tools_map, all_servers_tools,
                              closed>>
    /\ UNCHANGED <<initialized, kitVars, gwVars, fsVars, loaded, steps>>

\* the await of server.list_tools returns or raises; after the last
\* registration of initialize the flag is set
SessionListTools(t) ==
    /\ pc[t] = "listing"
    /\ LET name == Head(loaded[t][2])
           rest == Tail(loaded[t][2])
       IN
       \/ /\ pc' = [pc EXCEPT ![t] = IF t = 1 THEN "failed" ELSE "idle"]
          /\ last' = Op(loaded[t][1], "", name, "error")
          /\ UNCHANGED <<servers_map, tools_map, all_servers_tools,
                         initialized, loaded>>
       \/ \E names \in SessionTools(name) :
            /\ SetReg(publish_tools(Reg, name, names))
            /\ loaded' = [loaded EXCEPT ![t] = <<loaded[t][1], rest>>]
            /\ IF rest # <<>>
               THEN /\ pc' = [pc EXCEPT ![t] = "connecting"]
                    /\ last' = Op(loaded[t][1], "", name, "pending")
                    /\ UNCHANGED initialized
               ELSE /\ pc' = [pc EXCEPT ![t] = IF t = 1 THEN "done"
                                               ELSE "idle"]
                    /\ last' = Op(loaded[t][1], "", name, "none")
                    /\ initialized' = (initialized \/ t = 1)
    /\ UNCHANGED <<closed, kitVars, gwVars, fsVars, steps>>

\* remove_server_dynamically takes the lock, checks the name, deletes the
\* server from the three indices and awaits its shutdown
RemoveStart(t, name) ==
    /\ Call
    /\ t # 1
    /\ pc[t] = "idle"
    /\ ~session_lock_locked(pc)
    /\ LET r == remove_server_dynamically(Reg, name) IN
       IF r.raised
       THEN /\ last' = Op("remove_server_dynamically", "", name, "ValueError")
            /\ UNCHANGED <<servers_map, tools_map, all_servers_tools,
                           taskVars>>
       ELSE /\ SetReg(r.reg)
            /\ pc' = [pc EXCEPT ![t] = "shutting"]
            /\ loaded' = [loaded EXCEPT ![t] =
                             <<"remove_server_dynamically", <<name>> >>]
            /\ last' = Op("remove_server_dynamically", "", name, "pending")
    /\ UNCHANGED <<initialized, closed, kitVars, gwVars, fsVars>>

\* the await of server.shutdown returns
SessionShutdown(t) ==
    /\ pc[t] = "shutting"
    /\ closed' = closed \cup {Head(loaded[t][2])}
    /\ pc' = [pc EXCEPT ![t] = "idle"]
    /\ last' = Op("remove_server_dynamically", "", Head(loaded[t][2]), "none")
    /\ UNCHANGED <<servers_map, tools_map, all_servers_tools, initialized,
                   kitVars, gwVars, fsVars, loaded, steps>>

\* shutdown takes the lock, awaits shutdown() of the session of every entry
\* of the list in turn, then closes the exit stack; no other call can take
\* the lock in between.  last.name is the sequence of sessions shut down.
RegistryShutdown(t) ==
    /\ Call
    /\ t # 1
    /\ pc[t] = "idle"
    /\ \A u \in Tasks : pc[u] # "stopped"
    /\ ~session_lock_locked(pc)
    /\ closed' = closed \cup ListedServers
    /\ pc' = [pc EXCEPT ![t] = "stopped"]
    /\ last' = Op("shutdown", "",
                  [i \in 1..Len(all_servers_tools) |->
                      all_servers_tools[i][1].name], "none")
    /\ UNCHANGED <<servers_map, tools_map, all_servers_tools, initialized,
                   kitVars, gwVars, fsVars, loaded>>

SessionsNext ==
    \/ InitializeStart
    \/ \E t \in Tasks, name \in ServerNames : AddStart(t, name)
    \/ \E t \in Tasks, name \in ServerNames : RemoveStart(t, name)
    \/ \E t \in Tasks : SessionInitialize(t)
    \/ \E t \in Tasks : SessionListTools(t)
    \/ \E t \in Tasks : SessionShutdown(t)
    \/ \E t \in Tasks : RegistryShutdown(t)

SpecSessions == Init /\ [][SessionsNext]_vars

----------------------------------------------------------------------------
(* The request model: admin requests on one event loop, on a started       *)
(* composer with the kit k1.  A request runs until it awaits something     *)
(* that suspends it: downstream I/O, or _asyncio_lock while another        *)
(* request holds it.  A free lock is taken without suspending, and the     *)
(* configuration manager only does synchronous file I/O.  create_mcp_server *)
(* does nothing before it takes the lock, so it starts when it gets it;     *)
(* delete_mcp_server checks the dependencies first and may then wait.       *)
(* assign_server_to_kit never suspends.  loaded[t] is <<request, server>>.  *)

RequestsInit ==
    /\ servers_map = ConfiguredRegistry.servers_map
    /\ tools_map = ConfiguredRegistry.tools_map
    /\ all_servers_tools = ConfiguredRegistry.all_servers_tools
    /\ initialized = TRUE
    /\ closed = {}
    /\ kits = <<create_server_kit(ConfiguredRegistry, "k1", TRUE)>>
    /\ server_kits_map = << <<"k1", 1>> >>
    /\ Init!8 /\ Init!9 /\ Init!10 /\ Init!11 /\ Init!12 /\ Init!13
    /\ Init!14 /\ Init!15

\* create_mcp_server: the lock is taken and the name checked; the
\* registration is awaited
RequestCreate(t, name) ==
    /\ Tick
    /\ pc[t] = "idle"
    /\ ~session_lock_locked(pc)
    /\ IF add_server_dynamically(Reg, name).raised
       THEN /\ pc' = [pc EXCEPT ![t] = "done"]
            /\ last' = Op("create_mcp_server", "", name, "400")
            /\ UNCHANGED loaded
       ELSE /\ pc' = [pc EXCEPT ![t] = "connecting"]
            /\ loaded' = [loaded EXCEPT ![t] = <<"create_mcp_server", name>>]
            /\ last' = Op("create_mcp_server", "", name, "pending")
    /\ UNCHANGED <<regVars, kitVars, gwVars, fsVars>>

\* the await of server.initialize returns or raises
RequestConnected(t) ==
    /\ pc[t] = "connecting"
    /\ LET name == loaded[t][2] IN
       \E connected \in BOOLEAN :
          IF connected
          THEN /\ SetReg(publish_server(Reg, name))
               /\ closed' = closed \ {name}
               /\ pc' = [pc EXCEPT ![t] = "listing"]
               /\ last' = Op("create_mcp_server", "", name, "pending")
          ELSE /\ pc' = [pc EXCEPT ![t] = "done"]
               /\ last' = Op("create_mcp_server", "", name, "500")
               /\ UNCHANGED <<servers_map, tools_map, all_servers_tools,
                              closed>>
    /\ UNCHANGED <<initialized, kitVars, gwVars, fsVars, loaded, steps>>

\* the await of server.list_tools returns or raises; the lock is released
\* and the server is added to the configuration file
RequestListed(t) ==
    /\ pc[t] = "listing"
    /\ pc' = [pc EXCEPT ![t] = "done"]
    /\ LET name == loaded[t][2] IN
       \/ /\ last' = Op("create_mcp_server", "", name, "500")
          /\ UNCHANGED <<servers_map, tools_map, all_servers_tools, fsVars>>
       \/ \E fault \in ApiFaults :
            LET c == add_mcp_server(Files, name, fault) IN
            /\ SetReg(publish_tools(Reg, name, DownstreamTools(name)))
            /\ SetFiles(c.fs)
            /\ last' = Op("create_mcp_server", "", name, Status(c.exc, "400"))
    /\ UNCHANGED <<initialized, closed, kitVars, gwVars, loaded, steps>>

\* remove_server_dynamically once the lock is taken: the check and the
\* deletion from the indices; the shutdown of the session is awaited
request_remove(t, name) ==
    LET r == remove_server_dynamically(Reg, name) IN
    IF r.raised
    THEN /\ pc' = [pc EXCEPT ![t] = "done"]
         /\ last' = Op("delete_mcp_server", "", name, "404")
         /\ UNCHANGED <<servers_map, tools_map, all_servers_tools>>
    ELSE /\ SetReg(r.reg)
         /\ pc' = [pc EXCEPT ![t] = "shutting"]
         /\ last' = Op("delete_mcp_server", "", name, "pending")

\* delete_mcp_server: the dependency check, then remove_server_dynamically,
\* which waits for the lock when another request holds it
RequestDelete(t, name) ==
    /\ Tick
    /\ pc[t] = "idle"
    /\ loaded' = [loaded EXCEPT ![t] = <<"delete_mcp_server", name>>]
    /\ IF check_server_dependencies(name, kits, server_kits_map) # <<>>
       THEN /\ pc' = [pc EXCEPT ![t] = "done"]
            /\ last' = Op("delete_mcp_server", "", name, "400")
            /\ UNCHANGED <<servers_map, tools_map, all_servers_tools>>
       ELSE IF session_lock_locked(pc)
       THEN /\ pc' = [pc EXCEPT ![t] = "waiting"]
            /\ last' = Op("delete_mcp_server", "", name, "waiting")
            /\ UNCHANGED <<servers_map, tools_map, all_servers_tools>>
       ELSE request_remove(t, name)
    /\ UNCHANGED <<initialized, closed, kitVars, gwVars, fsVars>>

\* the lock is released and given to a waiting delete_mcp_server
RequestLockAcquired(t) ==
    /\ pc[t] = "waiting"
    /\ ~session_lock_locked(pc)
    /\ request_remove(t, loaded[t][2])
    /\ UNCHANGED <<initialized, closed, kitVars, gwVars, fsVars, loaded,
                   steps>>

\* the await of server.shutdown returns; the lock is released and the server
\* is removed from the configuration file
RequestShutdown(t) ==
    /\ pc[t] = "shutting"
    /\ pc' = [pc EXCEPT ![t] = "done"]
    /\ closed' = closed \cup {loaded[t][2]}
    /\ \E fault \in ApiFaults :
         LET c == remove_mcp_server(Files, loaded[t][2], fault) IN
         /\ SetFiles(c.fs)
         /\ last' = Op("delete_mcp_server", "", loaded[t][2],
                       Status(c.exc, "404"))
    /\ UNCHANGED <<servers_map, tools_map, all_servers_tools, initialized,
                   kitVars, gwVars, loaded, steps>>

RequestsNext ==
    \/ \E t \in Tasks, name \in ServerNames : RequestCreate(t, name)
    \/ \E t \in Tasks : RequestConnected(t)
    \/ \E t \in Tasks : RequestListed(t)
    \/ \E t \in Tasks, name \in ServerNames : RequestDelete(t, name)
    \/ \E t \in Tasks : RequestLockAcquired(t)
    \/ \E t \in Tasks : RequestShutdown(t)
    \/ \E name \in KitNames, s \in ServerNames, auto_enable \in BOOLEAN :
         AssignServerToKit(name, s, auto_enable)

SpecRequests == RequestsInit /\ [][RequestsNext]_vars

----------------------------------------------------------------------------
(* The gateway model: concurrent POST /gateways requests on a started      *)
(* composer.  The handler builds the kit and stores it in the kit map;     *)
(* Composer.add_gateway checks the name, awaits gateway.setup(), and then   *)
(* stores and mounts the gateway.  No lock is taken; the await of the setup *)
(* is the point where another request may run.  loaded[t] is <<name, kit>>. *)

GatewaysInit ==
    /\ servers_map = ConfiguredRegistry.servers_map
    /\ tools_map = ConfiguredRegistry.tools_map
    /\ all_servers_tools = ConfiguredRegistry.all_servers_tools
    /\ initialized = TRUE
    /\ Init!5 /\ Init!6 /\ Init!7 /\ Init!8 /\ Init!9 /\ Init!10 /\ Init!11
    /\ Init!12 /\ Init!13 /\ Init!14 /\ Init!15

\* the handler up to the await of gateway.setup()
GatewayCheck(t, name) ==
    /\ pc[t] = "idle"
    /\ Len(kits) < MaxKits
    /\ \E body \in Bodies(create_server_kit(Reg, name, TRUE)) :
         LET built == create_server_kit(Reg, name, TRUE)
             server_kit == [built EXCEPT
                              !.servers_enabled = body.servers_enabled,
                              !.tools_enabled = body.tools_enabled]
             id == Len(kits) + 1
         IN /\ kits' = Append(kits, server_kit)
            /\ server_kits_map' = DictSet(server_kits_map, name, id)
            /\ loaded' = [loaded EXCEPT ![t] = <<name, id>>]
            /\ IF add_gateway(gateway_map, routes, name, id).exc # "none"
               THEN /\ pc' = [pc EXCEPT ![t] = "failed"]
                    /\ last' = Op("add_gateway", name, <<>>, "500")
               ELSE /\ pc' = [pc EXCEPT ![t] = "setup"]
                    /\ last' = Op("add_gateway", name, <<>>, "pending")
    /\ UNCHANGED <<regVars, gwVars, fsVars, steps>>

\* gateway.setup() returns: the gateway is stored and mounted
GatewayStore(t) ==
    /\ pc[t] = "setup"
    /\ LET r == add_gateway_unchecked(gateway_map, routes, loaded[t][1],
                                      loaded[t][2])
       IN /\ gateway_map' = r.gateway_map
          /\ routes' = r.routes
    /\ pc' = [pc EXCEPT ![t] = "done"]
    /\ last' = Op("add_gateway", loaded[t][1], <<>>, "200")
    /\ UNCHANGED <<regVars, kitVars, fsVars, loaded, steps>>

GatewaysNext ==
    \/ \E t \in Tasks, name \in KitNames : GatewayCheck(t, name)
    \/ \E t \in Tasks : GatewayStore(t)

SpecGateways == GatewaysInit /\ [][GatewaysNext]_vars

----------------------------------------------------------------------------
(* Claims about the kit model and the gateways *)

\* the kit a gateway serves
GatewayKit(name) == kits[DictGet(gateway_map, name).server_kit]

\* the kits the Composer holds
ComposerKits == {kits[DictGet(server_kits_map, n)] : n \in DictKeys(server_kits_map)}

\* t passes the three filters of the kit: tool flag, server flag, assignment
Qualifies(kit, t) ==
    /\ DictHas(kit.tools_enabled, t)
    /\ DictGet(kit.tools_enabled, t)
    /\ DictHas(kit.tools_servers_map, t)
    /\ LET s == DictGet(kit.tools_servers_map, t) IN
       /\ DictHas(kit.servers_enabled, s)
       /\ DictGet(kit.servers_enabled, s)
       /\ kit.assigned_servers = <<>> \/ s \in Range(kit.assigned_servers)

\* C1: for every kit in every reachable state, list_enabled_tool_names
\* returns exactly the names of tools_enabled whose tool flag is true, whose
\* server flag is true and that pass the assignment filter (no filter when
\* assigned_servers is empty).
C1_ListEnabledExact ==
    \A i \in 1..Len(kits) :
       LET r == list_enabled_tool_names(kits[i]) IN
       /\ ~r.raised
       /\ Range(r.value) = {t \in DictKeys(kits[i].tools_enabled) :
                               Qualifies(kits[i], t)}

\* C2: CallTool forwards to a downstream session only if the kit is enabled
\* and the name is visible (tool enabled, owning server enabled, assignment
\* filter passed); in every other case it returns a result with isError and
\* the downstream is not invoked.
C2_CallToolPolicy ==
    last.op = "call_tool" =>
       LET kit == GatewayKit(last.kit)
           allowed == kit.enabled /\ Qualifies(kit, last.name)
       IN /\ last.forwarded => allowed
          /\ ~allowed => last.res = "result" /\ last.is_error /\ ~last.forwarded

\* S3: the owning server was disabled, the tool flag is still true, and the
\* call was answered with an error result
C2_Witness ==
    /\ last.op = "call_tool"
    /\ last.is_error /\ ~last.forwarded
    /\ LET kit == GatewayKit(last.kit) IN
       /\ kit.enabled
       /\ DictHas(kit.tools_enabled, last.name)
       /\ DictGet(kit.tools_enabled, last.name)
       /\ DictHas(kit.tools_servers_map, last.name)
       /\ DictHas(kit.servers_enabled, DictGet(kit.tools_servers_map, last.name))
       /\ ~DictGet(kit.servers_enabled, DictGet(kit.tools_servers_map, last.name))

\* a gateway whose kit is disabled lists nothing and rejects every call
\* without contacting a downstream
DisabledKitIsClosed ==
    \A g \in DictKeys(gateway_map) :
       ~GatewayKit(g).enabled =>
          /\ list_tools_handler(GatewayKit(g), Reg) = [fault |-> FALSE, tools |-> <<>>]
          /\ \A t \in ToolNames, d \in Downstreams :
                call_tool_handler(GatewayKit(g), Reg, closed, t, d)
                   = ToolResult(TRUE, FALSE)

\* enable_kit and disable_kit change the enabled flag of their kit and
\* nothing else, so the visible list is what it was
KitFlagOnly ==
    (last'.op \in {"disable_server_kit", "enable_server_kit"}
        /\ last'.res = "none") =>
       /\ Len(kits') = Len(kits)
       /\ \A i \in 1..Len(kits) :
             /\ kits'[i] = [kits[i] EXCEPT !.enabled = kits'[i].enabled]
             /\ list_enabled_tool_names(kits'[i]) = list_enabled_tool_names(kits[i])

\* C3: while a kit's enabled flag is false its gateway's ListTools is empty
\* and its CallTool is an error result with no downstream contact, whatever
\* the server and tool flags; enable_kit/disable_kit change only the flag.
C3_DisabledKit == []DisabledKitIsClosed /\ [][KitFlagOnly]_vars

\* a call for a tool that every flag allows was rejected because the kit
\* is disabled
C3_Witness ==
    /\ last.op = "call_tool"
    /\ last.is_error /\ ~last.forwarded
    /\ ~GatewayKit(last.kit).enabled
    /\ Qualifies(GatewayKit(last.kit), last.name)

\* C4: every CallTool ends with a result: policy rejection, a session that
\* is not ready, an unknown control name and a transport failure are error
\* results, never a fault of the handler.
C4_CallToolAlwaysResult ==
    \A g \in DictKeys(gateway_map), t \in ToolNames, d \in Downstreams :
       LET kit == GatewayKit(g)
           r == call_tool_handler(kit, Reg, closed, t, d)
           rejected == ~(kit.enabled /\ Qualifies(kit, t))
           unknown == ~DictHas(tools_map, t)
           not_ready == ~unknown
                          /\ DictGet(tools_map, t).server_control_name \in closed
       IN /\ ~r.fault
          /\ (rejected \/ unknown \/ not_ready \/ d = "transport") => r.is_error

\* a call for a visible tool was answered with an error result because the
\* session of its server has been shut down
C4_Witness ==
    /\ last.op = "call_tool"
    /\ last.res = "result" /\ last.is_error
    /\ GatewayKit(last.kit).enabled
    /\ Qualifies(GatewayKit(last.kit), last.name)
    /\ DictHas(tools_map, last.name)
    /\ DictGet(tools_map, last.name).server_control_name \in closed

----------------------------------------------------------------------------
(* Claims about server deletion and gateway removal *)

\* C5: after a successful delete_mcp_server(s), no kit of the Composer has
\* s in assigned_servers, s as a key of servers_enabled, or a key of
\* tools_enabled that starts with "s-".
C5_DeleteCleansKits ==
    (last.op = "delete_mcp_server" /\ last.res = "200") =>
       \A kit \in ComposerKits :
          /\ last.name \notin Range(kit.assigned_servers)
          /\ ~DictHas(kit.servers_enabled, last.name)
          /\ \A t \in DictKeys(kit.tools_enabled) : ~StartsWith(t, last.name)

\* C6: delete_mcp_server(s) is refused whenever a kit of the Composer has s
\* assigned, and a refused delete changes nothing: the registry indices,
\* the sessions, the kits and both files are as before.
C6_RefusedDelete ==
    [][last'.op = "delete_mcp_server" =>
         /\ (\E kit \in ComposerKits : last'.name \in Range(kit.assigned_servers))
               => last'.res = "400"
         /\ last'.res = "400" =>
               UNCHANGED <<regVars, kitVars, gwVars, fsVars>>]_vars

\* a delete was refused for a server that a kit has assigned and that is
\* still registered
C6_Witness ==
    /\ last.op = "delete_mcp_server"
    /\ last.res = "400"
    /\ \E kit \in ComposerKits : last.name \in Range(kit.assigned_servers)
    /\ DictHas(servers_map, last.name)
    /\ last.name \notin closed

\* C9 as stated: remove_gateway succeeds iff at least two gateways exist
\* before the call; with exactly one it fails with the last-gateway error
\* and leaves the gateway map and the routes unchanged.
C9_RemoveIffTwo ==
    [][last'.op = "remove_gateway" =>
         /\ last'.res = "none" <=> Len(gateway_map) >= 2
         /\ Len(gateway_map) = 1 =>
               last'.res = "last_gateway" /\ UNCHANGED gwVars]_vars

\* C9 amended: remove_gateway(name) succeeds iff at least two gateways
\* exist before the call and name is one of them; with exactly one gateway
\* it fails with the last-gateway error and leaves the gateway map and the
\* routes unchanged.
C9_RemoveIffTwoAndPresent ==
    [][last'.op = "remove_gateway" =>
         /\ last'.res = "none"
               <=> (Len(gateway_map) >= 2 /\ DictHas(gateway_map, last'.kit))
         /\ last'.res = "none" =>
               /\ ~DictHas(gateway_map', last'.kit)
               /\ Len(gateway_map') = Len(gateway_map) - 1
         /\ Len(gateway_map) = 1 =>
               last'.res = "last_gateway" /\ UNCHANGED gwVars]_vars

\* one of two gateways was removed
C9_Witness ==
    /\ last.op = "remove_gateway"
    /\ last.res = "none"
    /\ Len(gateway_map) = 1
    /\ ~DictHas(gateway_map, last.kit)

\* C10: once the Composer holds a gateway, no add_gateway or remove_gateway,
\* successful or rejected, empties the gateway map.
C10_NeverEmptyAgain ==
    [][Len(gateway_map) >= 1 => Len(gateway_map') >= 1]_vars

\* the removal of the only gateway was rejected
C10_Witness ==
    /\ last.op = "remove_gateway"
    /\ last.res = "last_gateway"
    /\ DictKeys(gateway_map) = {last.kit}

----------------------------------------------------------------------------
(* Claims about the configuration manager *)

\* C7: when save_configuration fails, at the backup rename, at the open or
\* at the write, the configuration file holds what it held before the
\* call, whatever the target and the backup were before the call.
C7_FailedSaveKeepsFile ==
    [][(last'.op = "save_configuration" /\ last'.res # "none")
          => file' = file]_vars

----------------------------------------------------------------------------
(* Claims about kit assignment *)

\* the kit a kit-scoped request names, before the request
NamedKit(kit_name) == kits[DictGet(server_kits_map, kit_name)]

\* C11: assign_server_to_kit on an existing kit answers 404 when the server
\* is not in the registry and 400 when the server is already in the kit's
\* assigned_servers; in both cases no kit and no file changes.
C11_AssignRejections ==
    [][(last'.op = "assign_server_to_kit"
          /\ DictHas(server_kits_map, last'.kit)) =>
         /\ last'.name \notin DictKeys(servers_map) =>
               last'.res = "404" /\ UNCHANGED <<kitVars, fsVars>>
         /\ last'.name \in Range(NamedKit(last'.kit).assigned_servers) =>
               last'.res = "400" /\ UNCHANGED <<kitVars, fsVars>>]_vars

\* an assignment was rejected because the kit already has the server
C11_Witness ==
    /\ last.op = "assign_server_to_kit"
    /\ last.res = "400"
    /\ DictHas(server_kits_map, last.kit)
    /\ last.name \in Range(NamedKit(last.kit).assigned_servers)
    /\ last.name \in DictKeys(servers_map)

----------------------------------------------------------------------------
(* Claims about the documents the configuration manager reads and writes *)

Sections == {"mcpServers", "serverKitAssignments"}

\* C12: a load_configuration that follows a successful save_configuration
\* of doc returns doc with the sections it lacked added as empty maps and
\* with every key of doc, known or not, holding the value it has in doc.
C12_LoadAfterSave ==
    [][(/\ last.op = "save_configuration"
        /\ last.res = "none"
        /\ last'.op = "load_configuration") =>
         /\ last'.res = "none"
         /\ DictKeys(last'.name) = DictKeys(last.name) \cup Sections
         /\ Len(last'.name) = Cardinality(DictKeys(last'.name))
         /\ \A k \in DictKeys(last.name) :
               DictGet(last'.name, k) = DictGet(last.name, k)
         /\ \A k \in Sections \ DictKeys(last.name) :
               DictGet(last'.name, k) = <<>>]_vars

\* a document with an unknown key and without serverKitAssignments was
\* saved and then loaded
C12_Witness ==
    /\ last.op = "load_configuration"
    /\ last.res = "none"
    /\ DictHas(last.name, "version")
    /\ file = Json(<< <<"version", "1">>,
                      <<"mcpServers", << <<SrvA, ServerEntry>> >> >> >>)

\* C13: after a save_configuration that succeeded, whatever the document,
\* the file holds a document with both sections.
C13_SectionsAfterWrite ==
    (last.op = "save_configuration" /\ last.res = "none") =>
       /\ file.kind = "json"
       /\ Sections \subseteq DictKeys(json_load(file.text))

\* the tools of server s in the registry
RegistryToolsOf(s) ==
    {t \in DictKeys(tools_map) : DictGet(tools_map, t).server_control_name = s}

\* kit is what create_server_kit builds from the registry with default b
BuiltFromRegistry(kit, b) ==
    /\ kit.enabled
    /\ kit.assigned_servers = <<>>
    /\ DictKeys(kit.servers_enabled) = DictKeys(servers_map)
    /\ \A s \in DictKeys(servers_map) : DictGet(kit.servers_enabled, s) = b
    /\ DictKeys(kit.tools_enabled) = DictKeys(tools_map)
    /\ \A t \in DictKeys(tools_map) : DictGet(kit.tools_enabled, t) = b
    /\ DictKeys(kit.tools_servers_map) = DictKeys(tools_map)
    /\ \A t \in DictKeys(tools_map) :
          DictGet(kit.tools_servers_map, t)
             = DictGet(tools_map, t).server_control_name
    /\ DictKeys(kit.servers_tools_hierarchy_map) = DictKeys(servers_map)
    /\ \A s \in DictKeys(servers_map) :
          Range(DictGet(kit.servers_tools_hierarchy_map, s)) = RegistryToolsOf(s)
    /\ b => /\ ~list_enabled_tool_names(kit).raised
            /\ Range(list_enabled_tool_names(kit).value) = DictKeys(tools_map)

\* C14: create_server_kit fails and adds no kit when the controller is not
\* initialized; otherwise it stores under the name an enabled kit with no
\* assigned server, one servers_enabled entry per registered server and one
\* tools_enabled entry per registered tool, all set to the default, with
\* the hierarchy and the tool-to-server map of the registry; with the
\* default true its visible tools are all control names of the registry.
C14_CreateKit ==
    [][last'.op = "create_server_kit" =>
         IF ~initialized
         THEN last'.res = "ValueError" /\ UNCHANGED kitVars
         ELSE /\ last'.res = "none"
              /\ DictHas(server_kits_map', last'.kit)
              /\ BuiltFromRegistry(
                    kits'[DictGet(server_kits_map', last'.kit)],
                    last'.flag)]_vars

\* a kit was created with default true from a registry of two servers
C14_Witness ==
    /\ last.op = "create_server_kit"
    /\ last.res = "none"
    /\ last.flag
    /\ Len(servers_map) = 2
    /\ Cardinality(Range(list_enabled_tool_names(NamedKit(last.kit)).value)) = 3

\* the kit a kit-scoped request named, after the request
NamedKitAfter(kit_name) == kits'[DictGet(server_kits_map', kit_name)]

\* after an assignment of server s with auto_enable b, kit holds s with
\* the registry's tools of s and shows no tool of an unassigned server
AssignedFromRegistry(kit, s, b) ==
    /\ s \in Range(kit.assigned_servers)
    /\ DictHas(kit.servers_tools_hierarchy_map, s)
    /\ Range(DictGet(kit.servers_tools_hierarchy_map, s)) = RegistryToolsOf(s)
    /\ Len(DictGet(kit.servers_tools_hierarchy_map, s))
          = Cardinality(RegistryToolsOf(s))
    /\ \A t \in RegistryToolsOf(s) :
          /\ DictHas(kit.tools_enabled, t)
          /\ DictGet(kit.tools_enabled, t) = b
          /\ DictHas(kit.tools_servers_map, t)
          /\ DictGet(kit.tools_servers_map, t) = s
    /\ ~list_enabled_tool_names(kit).raised
    /\ \A t \in Range(list_enabled_tool_names(kit).value) :
          DictGet(kit.tools_servers_map, t) \in Range(kit.assigned_servers)
    /\ b => Range(list_enabled_tool_names(kit).value) = RegistryToolsOf(s)

\* C15: after a successful assign_server_to_kit(K, A, auto_enable) on a kit
\* created from the whole registry, A is in assigned_servers, the hierarchy
\* of A lists exactly the registry's tools of A, each with tools_enabled =
\* auto_enable and mapped to A, and no tool of an unassigned server is
\* visible; with auto_enable the visible tools are exactly A's tools.
C15_AssignFromRegistry ==
    [][(/\ last'.op = "assign_server_to_kit"
        /\ last'.res = "200"
        /\ \E b \in BOOLEAN : BuiltFromRegistry(NamedKit(last'.kit), b)) =>
         AssignedFromRegistry(NamedKitAfter(last'.kit), last'.name,
                              last'.flag)]_vars

\* a server was assigned with auto_enable to a kit of two servers whose
\* other server is still enabled and no longer visible
C15_Witness ==
    /\ last.op = "assign_server_to_kit"
    /\ last.res = "200"
    /\ last.flag
    /\ NamedKit(last.kit).assigned_servers = <<last.name>>
    /\ \E s \in DictKeys(NamedKit(last.kit).servers_enabled) :
          /\ s # last.name
          /\ DictGet(NamedKit(last.kit).servers_enabled, s)
          /\ RegistryToolsOf(s) # {}
    /\ Range(list_enabled_tool_names(NamedKit(last.kit)).value)
          = RegistryToolsOf(last.name)

----------------------------------------------------------------------------
(* Claims about ServerKit.assign_mcp_server and unassign_mcp_server *)

\* the entries of kit that belong to servers other than s, and its
\* assigned_servers
WithoutServer(kit, s) ==
    [assigned_servers |-> kit.assigned_servers,
     servers_enabled |-> SelectSeq(kit.servers_enabled, LAMBDA p : p[1] # s),
     tools_enabled |->
        SelectSeq(kit.tools_enabled,
                  LAMBDA p : ~(DictHas(kit.tools_servers_map, p[1])
                               /\ DictGet(kit.tools_servers_map, p[1]) = s)),
     tools_servers_map |->
        SelectSeq(kit.tools_servers_map, LAMBDA p : p[2] # s),
     servers_tools_hierarchy_map |->
        SelectSeq(kit.servers_tools_hierarchy_map, LAMBDA p : p[1] # s)]

\* C16: for a kit K and a server s not in K.assigned_servers, assign(s)
\* followed by unassign(s) leaves assigned_servers and every entry of
\* servers_enabled, tools_enabled, tools_servers_map and the hierarchy that
\* belongs to another server as before the two calls.
C16_AssignUnassign ==
    [][(/\ last'.op = "assign_mcp_server"
        /\ last'.name \notin Range(kits[1].assigned_servers)) =>
         LET after == unassign_mcp_server(kits'[1], last'.name) IN
         /\ WithoutServer(after, last'.name) = WithoutServer(kits[1], last'.name)
         /\ after.name = kits[1].name
         /\ after.enabled = kits[1].enabled]_vars

\* a server was assigned to a kit that holds tools of it and of another
\* server; unassigning it drops the first and keeps the second
C16_Witness ==
    /\ last.op = "assign_mcp_server"
    /\ kits[1].assigned_servers = <<last.name>>
    /\ \E t \in DictKeys(kits[1].tools_enabled) :
          DictGet(kits[1].tools_servers_map, t) = last.name
    /\ \E t \in DictKeys(kits[1].tools_enabled) :
          DictGet(kits[1].tools_servers_map, t) # last.name
    /\ unassign_mcp_server(kits[1], last.name).tools_enabled # <<>>
    /\ unassign_mcp_server(kits[1], last.name).tools_enabled
          # kits[1].tools_enabled

\* C17: unassign(s) on a kit that has s assigned removes s from
\* assigned_servers, deletes servers_enabled[s], deletes every tool mapped
\* to s from tools_enabled and tools_servers_map and drops the hierarchy of
\* s, leaving the rest; on a kit that does not have s assigned it changes
\* nothing; a second unassign(s) changes nothing.
C17_Unassign ==
    [][last'.op = "unassign_mcp_server" =>
         LET s == last'.name
             kit == kits[1]
             after == kits'[1]
         IN
         /\ IF s \in Range(kit.assigned_servers)
            THEN /\ after.assigned_servers
                       = SelectSeq(kit.assigned_servers, LAMBDA x : x # s)
                 /\ after.servers_enabled
                       = SelectSeq(kit.servers_enabled, LAMBDA p : p[1] # s)
                 /\ after.tools_servers_map
                       = SelectSeq(kit.tools_servers_map, LAMBDA p : p[2] # s)
                 /\ after.tools_enabled = WithoutServer(kit, s).tools_enabled
                 /\ after.servers_tools_hierarchy_map
                       = SelectSeq(kit.servers_tools_hierarchy_map,
                                   LAMBDA p : p[1] # s)
                 /\ after.name = kit.name
                 /\ after.enabled = kit.enabled
            ELSE after = kit
         /\ unassign_mcp_server(after, s) = after
         /\ last'.res = "none"]_vars

\* server a was unassigned from a kit built from both servers: its
\* hierarchy and tools are gone, those of a-b are still there
C17_Witness ==
    /\ last.op = "unassign_mcp_server"
    /\ last.name = SrvA
    /\ DictKeys(kits[1].servers_tools_hierarchy_map) = {SrvAB}
    /\ ControlName(SrvAB, <<"t1">>) \in DictKeys(kits[1].tools_enabled)
    /\ ControlName(SrvA, <<"t1">>) \notin DictKeys(kits[1].tools_enabled)
    /\ ~DictHas(kits[1].servers_enabled, SrvA)

----------------------------------------------------------------------------
(* Claims about the consistency of a kit's maps *)

\* C18: in every kit of the Composer and of its gateways, every key t of
\* tools_enabled has tools_servers_map[t] defined, tools_servers_map[t] is
\* a key of the hierarchy and of servers_enabled, and t is listed in the
\* hierarchy of tools_servers_map[t]; list_enabled_tool_names raises no
\* KeyError.
C18_KitMapsConsistent ==
    \A i \in 1..Len(kits) :
       /\ \A t \in DictKeys(kits[i].tools_enabled) :
            /\ DictHas(kits[i].tools_servers_map, t)
            /\ DictHas(kits[i].servers_tools_hierarchy_map,
                       DictGet(kits[i].tools_servers_map, t))
            /\ DictHas(kits[i].servers_enabled,
                       DictGet(kits[i].tools_servers_map, t))
            /\ t \in Range(DictGet(kits[i].servers_tools_hierarchy_map,
                                   DictGet(kits[i].tools_servers_map, t)))
       /\ ~list_enabled_tool_names(kits[i]).raised

----------------------------------------------------------------------------
(* Claims about adding servers to the registry *)

\* no server name has two entries in _all_servers_tools
OneSessionPerName ==
    \A i, j \in 1..Len(all_servers_tools) :
       all_servers_tools[i][1].name = all_servers_tools[j][1].name => i = j

\* an add for a registered name is rejected and changes nothing
DuplicateRejected ==
    \A t \in Tasks :
       (pc[t] = "idle" /\ pc'[t] # "idle") =>
          IF DictHas(servers_map, loaded'[t])
          THEN pc'[t] = "failed" /\ UNCHANGED regVars
          ELSE pc'[t] = "registering"

\* C19: add_server_dynamically with a name that has a session fails and
\* leaves the three indices and the sessions unchanged; the check and the
\* registration are under one hold of the lock, so concurrent adds of one
\* name never start a second session for it.
C19_AddDuplicate == []OneSessionPerName /\ [][DuplicateRejected]_vars

\* two concurrent adds of server x: one registered it, the other failed
C19_Witness ==
    \E t, u \in Tasks :
       /\ pc[t] = "done" /\ loaded[t] = SrvX
       /\ pc[u] = "failed" /\ loaded[u] = SrvX
       /\ DictHas(servers_map, SrvX)

\* C20: add_server_dynamically on a controller that is not initialized
\* fails and registers nothing.
C20_AddNeedsInitialized ==
    [][(last'.op = "create_mcp_server" /\ ~initialized) =>
          last'.res # "200" /\ UNCHANGED regVars]_vars

----------------------------------------------------------------------------
(* Claims about persistence failures of the admin operations *)

\* the request being served got past its checks and changed the registry
\* or the kit, and was answered with an error
FailedAfterMutation(op) ==
    /\ last'.op = op
    /\ last'.res # "200"
    /\ CASE op = "create_mcp_server" -> ~DictHas(servers_map, last'.name)
         [] op = "delete_mcp_server" ->
               /\ check_server_dependencies(last'.name, kits,
                                            server_kits_map) = <<>>
               /\ DictHas(servers_map, last'.name)
         [] op = "assign_server_to_kit" ->
               /\ DictHas(server_kits_map, last'.kit)
               /\ DictHas(servers_map, last'.name)
               /\ ~is_server_assigned(NamedKit(last'.kit), last'.name)
         [] op = "unassign_server_from_kit" ->
               /\ DictHas(server_kits_map, last'.kit)
               /\ is_server_assigned(NamedKit(last'.kit), last'.name)

\* C21: when the configuration manager fails after the in-memory step of
\* create_mcp_server, delete_mcp_server, assign_server_to_kit or
\* unassign_server_from_kit, the request is answered with an error and the
\* registry or the kit keeps the change.
C21_NoRollback ==
    [][/\ FailedAfterMutation("create_mcp_server") =>
             /\ Reg' = add_server_dynamically(Reg, last'.name).reg
             /\ Reg' # Reg
       /\ FailedAfterMutation("delete_mcp_server") =>
             /\ Reg' = remove_server_dynamically(Reg, last'.name).reg
             /\ last'.name \in closed'
       /\ FailedAfterMutation("assign_server_to_kit") =>
             /\ is_server_assigned(NamedKitAfter(last'.kit), last'.name)
             /\ NamedKitAfter(last'.kit)
                   = assign_server(NamedKit(last'.kit), Reg, last'.name,
                                   last'.flag)
       /\ FailedAfterMutation("unassign_server_from_kit") =>
             NamedKitAfter(last'.kit)
                = unassign_mcp_server(NamedKit(last'.kit), last'.name)]_vars

\* a server was registered, the configuration could not be written, the
\* request was answered 500 and the server is in the registry and not in
\* the file
C21_Witness ==
    /\ last.op = "create_mcp_server"
    /\ last.res = "500"
    /\ DictHas(servers_map, last.name)
    /\ file.kind = "json"
    /\ ~DictHas(DictGet(json_load(file.text), "mcpServers"), last.name)

----------------------------------------------------------------------------
(* Claims about gateways, their kits and their mounts *)

\* C22: after remove_gateway(name) succeeded the Composer holds no kit
\* named name.
C22_KitGoesWithGateway ==
    (last.op = "remove_gateway" /\ last.res = "none") =>
       ~DictHas(server_kits_map, last.kit)

\* C23: add_gateway for a name that has a gateway is rejected and leaves
\* the gateway map and the mounted routes unchanged.
C23_AddExistingGateway ==
    [][(last'.op = "add_gateway" /\ DictHas(gateway_map, last'.kit)) =>
          last'.res = "500" /\ UNCHANGED gwVars]_vars

\* a second add_gateway for a mounted name was rejected
C23_Witness ==
    /\ last.op = "add_gateway"
    /\ last.res = "500"
    /\ DictHas(gateway_map, last.kit)
    /\ last.kit \in Range(routes)

\* the number of mounts at the path of name
Mounts(name) == Len(SelectSeq(routes, LAMBDA r : r = name))

\* C30: the sub-application has a mount for name exactly when name is a
\* key of the gateway map, and never more than one.
C30_MountsMatchGateways ==
    \A name \in GatewayNames :
       /\ Mounts(name) <= 1
       /\ Mounts(name) = 1 <=> DictHas(gateway_map, name)

\* a gateway was removed, its mount is gone and the other mount is there
C30_Witness ==
    /\ last.op = "remove_gateway"
    /\ last.res = "none"
    /\ Mounts(last.kit) = 0
    /\ Len(routes) = 1

----------------------------------------------------------------------------
(* Claims about the migration of kits *)

PersistedAssignments(fs) ==
    DictGet(load_configuration(fs).value, "serverKitAssignments")

\* every entry of the persisted map is in the kit's map, and the kit's other
\* entries are the ones it had
Overlaid(old_map, persisted_map, new_map) ==
    /\ \A e \in Range(persisted_map) :
          DictHas(new_map, e[1]) /\ DictGet(new_map, e[1]) = e[2]
    /\ \A e \in Range(old_map) :
          ~DictHas(persisted_map, e[1]) =>
             DictHas(new_map, e[1]) /\ DictGet(new_map, e[1]) = e[2]
    /\ \A e \in Range(new_map) :
          DictHas(persisted_map, e[1]) \/ DictHas(old_map, e[1])

\* C24: migrate_server_kits, when it succeeds, gives every kit without a
\* persisted assignment the servers its servers_enabled marks true, in the
\* kit's order, and writes the kit's assignment; it gives every kit with a
\* persisted assignment the persisted assigned_servers and lays the persisted
\* entries of the four maps over the kit's, and writes nothing for it: when
\* every kit has an assignment the files are untouched.
C24_Migrate ==
    [][(last'.op = "migrate_server_kits" /\ last'.res = "none") =>
         LET persisted == PersistedAssignments(Files)
             written == PersistedAssignments(Fs(file', bak'))
         IN
         /\ \A p \in Range(server_kits_map) :
              LET old == kits[p[2]]
                  new == kits'[p[2]]
              IN
              IF ~DictHas(persisted, p[1])
              THEN /\ Range(new.assigned_servers) =
                         {e[1] : e \in {f \in Range(old.servers_enabled) : f[2]}}
                   /\ \A i, j \in 1..Len(new.assigned_servers) :
                         i < j =>
                           \E a, b \in 1..Len(old.servers_enabled) :
                              /\ a < b
                              /\ old.servers_enabled[a][1] =
                                    new.assigned_servers[i]
                              /\ old.servers_enabled[b][1] =
                                    new.assigned_servers[j]
                   /\ new.servers_enabled = old.servers_enabled
                   /\ new.tools_enabled = old.tools_enabled
                   /\ DictHas(written, p[1])
                   /\ DictGet(written, p[1]) = KitConfig(new)
              ELSE
                LET data == DictGet(persisted, p[1]) IN
                /\ new.assigned_servers = data.assigned_servers
                /\ Overlaid(old.servers_enabled, data.servers_enabled,
                            new.servers_enabled)
                /\ Overlaid(old.tools_enabled, data.tools_enabled,
                            new.tools_enabled)
                /\ Overlaid(old.servers_tools_hierarchy_map,
                            data.servers_tools_hierarchy_map,
                            new.servers_tools_hierarchy_map)
                /\ Overlaid(old.tools_servers_map, data.tools_servers_map,
                            new.tools_servers_map)
                /\ DictGet(written, p[1]) = data
         /\ (\A p \in Range(server_kits_map) : DictHas(persisted, p[1])) =>
               UNCHANGED fsVars]_vars

\* a migration that did both: k1 had an assignment that differed from the
\* kit and was laid over it, k2 had none and was written
C24_Witness ==
    /\ last.op = "migrate_server_kits" /\ last.res = "none"
    /\ DictHas(server_kits_map, "k1") /\ DictHas(server_kits_map, "k2")
    /\ DictHas(PersistedAssignments(Files), "k2")
    /\ NamedKit("k1").assigned_servers # <<>>
    /\ \E e \in Range(NamedKit("k1").servers_enabled) : ~e[2]
    /\ \E e \in Range(NamedKit("k2").servers_enabled) : e[2]

----------------------------------------------------------------------------
(* Claims about the three indices of the registry *)


\* C25: in every state, which is what a lock-free read may see, a name is a
\* key of the servers map exactly when the list has an entry of it, and
\* every tool of an entry of the list is in the tools map.
C25_IndicesAgree ==
    /\ \A name \in ServerNames :
          DictHas(servers_map, name) <=> name \in ListedServers
    /\ \A e \in Range(all_servers_tools) : \A tool \in Range(e[2]) :
          DictHas(tools_map, tool.control_name)

ListedTools ==
    UNION {Range(e[2]) : e \in Range(all_servers_tools)}

Quiescent == \A t \in Tasks : pc[t] \in {"idle", "done", "failed"}

\* C26: when no call is in progress, the tools map holds exactly the tools
\* of the entries of the list, each under the key made of its server's name,
\* a hyphen and its own name, and the tool under a key has that key as its
\* control name.
C26_ToolsMapExact ==
    Quiescent =>
       /\ {p[2] : p \in Range(tools_map)} = ListedTools
       /\ \A tool \in ListedTools :
             /\ DictHas(tools_map,
                        ControlName(tool.server_control_name, tool.name))
             /\ DictGet(tools_map,
                        ControlName(tool.server_control_name, tool.name)) = tool
       /\ \A p \in Range(tools_map) : p[2].control_name = p[1]

\* C27: no step puts a tool of one server under a key that holds a tool of
\* another server; such a registration fails and leaves the tools map as it
\* was.
C27_NoSilentReplace ==
    [][\A p \in Range(tools_map) :
          DictHas(tools_map', p[1]) =>
             DictGet(tools_map', p[1]).server_control_name =
                p[2].server_control_name]_vars

OthersUntouched(name) ==
    /\ \A s \in ServerNames \ {name} :
          /\ DictHas(servers_map', s) <=> DictHas(servers_map, s)
          /\ DictHas(servers_map, s) =>
                DictGet(servers_map', s) = DictGet(servers_map, s)
    /\ SelectSeq(all_servers_tools', LAMBDA e : e[1].name # name) =
          SelectSeq(all_servers_tools, LAMBDA e : e[1].name # name)
    /\ SelectSeq(tools_map', LAMBDA p : p[2].server_control_name # name) =
          SelectSeq(tools_map, LAMBDA p : p[2].server_control_name # name)

InNoIndex(sm, tm, ast, name) ==
    /\ ~DictHas(sm, name)
    /\ \A p \in Range(tm) : p[2].server_control_name # name
    /\ \A e \in Range(ast) : e[1].name # name

\* C28: remove_server_dynamically of a name that is not in the servers map
\* raises and changes no index and shuts nothing down; of a name that is, it
\* leaves the name in none of the three indices and the entries of the other
\* servers as they were, and while the shutdown of the session is awaited the
\* name is already in none of them.
C28_Remove ==
    /\ [](\A t \in Tasks :
            pc[t] = "shutting" =>
               InNoIndex(servers_map, tools_map, all_servers_tools,
                         Head(loaded[t][2])))
    /\ [][(last'.op = "remove_server_dynamically" /\ steps' = steps + 1) =>
            IF ~DictHas(servers_map, last'.name)
            THEN /\ last'.res = "ValueError"
                 /\ UNCHANGED <<regVars, taskVars>>
            ELSE /\ last'.res = "pending"
                 /\ InNoIndex(servers_map', tools_map', all_servers_tools',
                              last'.name)
                 /\ OthersUntouched(last'.name)
                 /\ closed' = closed
                 /\ \E t \in Tasks : pc'[t] = "shutting"]_vars

\* a server with tools was removed while another stayed, and its shutdown
\* has returned
C28_Witness ==
    /\ last.op = "remove_server_dynamically" /\ last.res = "none"
    /\ last.name \in closed
    /\ InNoIndex(servers_map, tools_map, all_servers_tools, last.name)
    /\ tools_map # <<>>
    /\ SessionTools(last.name) # {<<>>}

RegisteredInAll(name) ==
    /\ DictHas(servers_map', name)
    /\ \E e \in Range(all_servers_tools') :
          /\ e[1].name = name
          /\ \A tool \in Range(e[2]) :
                \E p \in Range(tools_map') : p[2] = tool

\* C29: initialize registers the configs in their order; when the
\* registration of a config fails, the call ends with the error, the configs
\* before it stay registered in the three indices, no config after it is
\* started, the flag stays false and the lock is free; the failed call does
\* nothing afterwards.
C29_InitializeFailure ==
    /\ [][(pc[1] # "failed" /\ pc'[1] = "failed") =>
            LET remaining == loaded[1][2]
                before == SubSeq(configs, 1, Len(configs) - Len(remaining))
            IN /\ last'.op = "initialize" /\ last'.res = "error"
               /\ remaining # <<>>
               /\ configs = before \o remaining
               /\ \A i \in 1..Len(before) : RegisteredInAll(before[i])
               /\ UNCHANGED <<servers_map, tools_map, all_servers_tools,
                              closed, loaded>>
               /\ initialized' = FALSE
               /\ ~session_lock_locked(pc')]_vars
    /\ [][pc[1] = "failed" =>
            /\ pc'[1] = "failed"
            /\ loaded'[1] = loaded[1]
            /\ initialized' = FALSE]_vars
    /\ [][(pc'[1] \in {"connecting", "listing"}) =>
            /\ loaded'[1][1] = "initialize"
            /\ \E k \in 0..Len(configs) - 1 :
                  /\ loaded'[1][2] = SubSeq(configs, k + 1, Len(configs))
                  /\ \A i \in 1..k : RegisteredInAll(configs[i])]_vars

\* the second config failed after the first was registered, and a later call
\* took the lock
C29_Witness ==
    /\ pc[1] = "failed"
    /\ Len(loaded[1][2]) = 1
    /\ DictHas(servers_map, configs[1])
    /\ configs[1] \in ListedServers
    /\ ~initialized
    /\ \E t \in Tasks : pc[t] \in {"connecting", "listing"}

----------------------------------------------------------------------------
(* Claims about ConfigurationManager.remove_mcp_server *)

\* the handler reaches config_manager.remove_mcp_server(last'.name)
ManagerRemoveCalled ==
    /\ last'.op = "delete_mcp_server"
    /\ check_server_dependencies(last'.name, kits, server_kits_map) = <<>>
    /\ DictHas(servers_map, last'.name)
    /\ load_configuration(Files).exc = "none"

\* the tools_enabled entries of an assignment that belong to a server, by
\* the assignment's own tools_servers_map
ToolsEnabledOf(kit_config, server_name) ==
    SelectSeq(kit_config.tools_enabled,
              LAMBDA p : /\ DictHas(kit_config.tools_servers_map, p[1])
                         /\ DictGet(kit_config.tools_servers_map, p[1]) =
                               server_name)

\* C31: remove_mcp_server of a name that is not in mcpServers raises and
\* writes nothing; otherwise, when it succeeds, the name is gone from
\* mcpServers and from the assigned_servers, servers_enabled and
\* tools_enabled of every assignment, and every mcpServers entry and every
\* assigned_servers, servers_enabled and tools_enabled entry of another
\* server is as it was.
C31_RemoveMcpServer ==
    [][ManagerRemoveCalled =>
         LET name == last'.name
             old == load_configuration(Files).value
             new == load_configuration(Fs(file', bak')).value
             old_kits == DictGet(old, "serverKitAssignments")
             new_kits == DictGet(new, "serverKitAssignments")
         IN
         IF ~DictHas(DictGet(old, "mcpServers"), name)
         THEN last'.res = "404" /\ UNCHANGED fsVars
         ELSE last'.res = "200" =>
              /\ DictGet(new, "mcpServers") =
                    DictDel(DictGet(old, "mcpServers"), name)
              /\ DictKeys(new_kits) = DictKeys(old_kits)
              /\ \A i \in 1..Len(old_kits) :
                   LET o == old_kits[i][2]
                       n == DictGet(new_kits, old_kits[i][1])
                   IN /\ n.assigned_servers =
                            ListRemove(o.assigned_servers, name)
                      /\ n.servers_enabled = DictDel(o.servers_enabled, name)
                      /\ ToolsEnabledOf(n, name) = <<>>
                      /\ \A s \in ServerNames \ {name} :
                            ToolsEnabledOf(n, s) = ToolsEnabledOf(o, s)]_vars

----------------------------------------------------------------------------
(* Claims about the shutdown of the registry *)

\* C32: shutdown runs with the lock taken, and when it returns every session
\* in the servers map has had shutdown() called, also one whose registration
\* failed after it entered the map, and no session that a remove had shut
\* down is shut down again.
C32_Shutdown ==
    [][last'.op = "shutdown" =>
         /\ ~session_lock_locked(pc)
         /\ DictKeys(servers_map) \subseteq closed'
         /\ \A i \in 1..Len(last'.name) : last'.name[i] \notin closed]_vars

----------------------------------------------------------------------------
(* Claims about a process that stops inside save_configuration *)

\* C33: when the process stops at any point of save_configuration on an
\* existing configuration file, load_configuration in the restarted process
\* returns the document the file held before the call or the document being
\* saved, and does not raise.
C33_CrashSafe ==
    [][(last'.op = "save_stopped" /\ file.kind = "json") =>
         LET l == load_configuration(Fs(file', bak')) IN
         /\ l.exc = "none"
         /\ l.value \in {load_configuration(Files).value,
                         load_configuration(
                            Fs(Json(last'.name), Absent)).value}]_vars

----------------------------------------------------------------------------
(* Claims about visible tools and the registry *)

\* C34: in every state, every name that list_enabled_tool_names of a kit of
\* the Composer returns is a key of the tools map, and the server of the tool
\* under it is a key of the servers map.
C34_VisibleToolsRegistered ==
    \A kit \in ComposerKits :
       LET r == list_enabled_tool_names(kit) IN
       ~r.raised =>
          \A t \in Range(r.value) :
             /\ DictHas(tools_map, t)
             /\ DictHas(servers_map,
                        DictGet(tools_map, t).server_control_name)

----------------------------------------------------------------------------
(* Claims about concurrent admin requests *)

\* C35: in every state of the concurrent requests, every server in the
\* assigned_servers of a kit of the Composer is a key of the servers map.
C35_AssignedAreRegistered ==
    \A kit \in ComposerKits :
       \A s \in Range(kit.assigned_servers) : DictHas(servers_map, s)

----------------------------------------------------------------------------
(* Claims about the kit a gateway serves *)

\* C36: in every state, for every gateway name the kit under that name in
\* the kit map is the kit object the gateway holds.
C36_GatewayServesMappedKit ==
    \A n \in DictKeys(gateway_map) :
       /\ DictHas(server_kits_map, n)
       /\ DictGet(server_kits_map, n) = DictGet(gateway_map, n).server_kit

----------------------------------------------------------------------------
(* Claims about what a kit exposes *)

\* the names list_enabled_tool_names returns (none when it raises)
Visible(kit) ==
    LET r == list_enabled_tool_names(kit) IN
    IF r.raised THEN {} ELSE Range(r.value)

\* C37: after unassign_server_from_kit of an assigned server, the visible
\* tools of the kit are among those that were visible before.
C37_UnassignNeverWidens ==
    [][(/\ last'.op = "unassign_server_from_kit"
        /\ DictHas(server_kits_map, last'.kit)
        /\ is_server_assigned(NamedKit(last'.kit), last'.name)) =>
          Visible(NamedKitAfter(last'.kit)) \subseteq
             Visible(NamedKit(last'.kit))]_vars

\* C38: a migration that succeeds leaves the visible tools of every kit that
\* had no persisted assignment as they were.
C38_MigrateKeepsVisible ==
    [][(last'.op = "migrate_server_kits" /\ last'.res = "none") =>
         \A p \in Range(server_kits_map) :
            ~DictHas(PersistedAssignments(Files), p[1]) =>
               Visible(kits'[p[2]]) = Visible(kits[p[2]])]_vars

\* C38 with the kit's own assigned_servers empty: a migration that succeeds
\* leaves the visible tools of every kit that had no persisted assignment
\* and no assigned server as they were.
C38_MigrateKeepsVisibleOfUnassigned ==
    [][(last'.op = "migrate_server_kits" /\ last'.res = "none") =>
         \A p \in Range(server_kits_map) :
            (/\ ~DictHas(PersistedAssignments(Files), p[1])
             /\ kits[p[2]].assigned_servers = <<>>) =>
               Visible(kits'[p[2]]) = Visible(kits[p[2]])]_vars

\* the migration was the first operation on the started composer, whose
\* kit k1 had no assigned server: k1 had no persisted assignment, its
\* assigned servers are now its enabled servers, it shows tools, and its
\* assignment is in the file
C38_Witness ==
    /\ last.op = "migrate_server_kits" /\ last.res = "none"
    /\ steps = 1
    /\ NamedKit("k1").assigned_servers = enabled_servers(NamedKit("k1"))
    /\ Len(NamedKit("k1").assigned_servers) = 2
    /\ Visible(NamedKit("k1")) # {}
    /\ DictHas(PersistedAssignments(Files), "k1")
    /\ DictGet(PersistedAssignments(Files), "k1") = KitConfig(NamedKit("k1"))

----------------------------------------------------------------------------
(* Claims about concurrent calls of add_server_dynamically *)

----------------------------------------------------------------------------
(* Claims about concurrent add_gateway calls *)

\* the calls for a name that returned a gateway
Succeeded(name) == {t \in Tasks : pc[t] = "done" /\ loaded[t][1] = name}

====
